---- MODULE Spec2Model ----
(***************************************************************************)
(* A model of the OBS bridge scripts: osc_io.py (OSCManager, OSCClient and *)
(* the script callbacks), http_server.py (the HTTP routes, the listener    *)
(* lifecycle and the WSS config loader).                                   *)
(*                                                                         *)
(* Strings whose structure the code inspects (OSC addresses and filters,   *)
(* filesystem paths) are sequences of characters; names that are only      *)
(* compared for equality are TLA+ strings.                                 *)
(***************************************************************************)
EXTENDS Integers, Sequences, FiniteSets, TLC

(***************************************************************************)
(* Bounds of the model.                                                    *)
(***************************************************************************)
\* the largest number_of_clients a settings object carries
MaxCount == 2
\* listener ports are drawn from 1..MaxPort
MaxPort == 3
\* the server_port values of config files are drawn from 1..MaxWssPort
MaxWssPort == 2

\* Python's None for a handle (server, thread, socket)
None == 0

Ports == 1 .. MaxPort
\* ports another process holds: binding one of them raises
BusyPorts == {3}

(***************************************************************************)
(* Strings as character sequences.                                         *)
(***************************************************************************)
\* str.startswith
StartsWith(s, p) == Len(p) <= Len(s) /\ SubSeq(s, 1, Len(p)) = p

AddrA == <<"/", "a">>
AddrAB == <<"/", "a", "/", "b">>
AddrAX == <<"/", "a", "x">>
AddrB == <<"/", "b">>
AddrC == <<"/", "c">>

\* the OSC addresses of inbound datagrams
Addresses == {AddrA, AddrAB, AddrAX, AddrC}

\* browser sources that exist in the OBS scene
Sources == {"B"}

(***************************************************************************)
(* OBS settings: the per-index client fields of the script's settings.     *)
(***************************************************************************)
CsA == [client_ip |-> "h", client_port |-> 9, browser_source_name |-> "B",
        osc_address |-> AddrA, event_name |-> ""]
CsAll == [client_ip |-> "h", client_port |-> 9, browser_source_name |-> "B",
          osc_address |-> <<>>, event_name |-> "x"]
CsAB == [client_ip |-> "", client_port |-> 0, browser_source_name |-> "",
         osc_address |-> AddrAB, event_name |-> "x"]
CsB == [client_ip |-> "!", client_port |-> 9, browser_source_name |-> "B",
        osc_address |-> AddrB, event_name |-> "osc_event_1"]

\* the settings objects with up to MaxCount clients drawn from `options`:
\* number_of_clients = Len, the fields of index i at position i+1
SettingsOver(options) == UNION { [1 .. n -> options] : n \in 0 .. MaxCount }

ListenSettings == SettingsOver({CsA, CsAll, CsAB})
SendSettings == SettingsOver({CsA, CsAB})
LifeSettings == SettingsOver({CsB})

\* f"osc_event_{index}"
SynthName(index) ==
  CASE index = 0 -> "osc_event_0"
    [] index = 1 -> "osc_event_1"
    [] index = 2 -> "osc_event_2"
    [] index = 3 -> "osc_event_3"
    [] OTHER -> "osc_event_n"

\* udp_client.SimpleUDPClient(ip, port): raises for an address that does not resolve
UdpClientRaises(ip) == ip = "!"

\* OSCClient.__init__(settings, index), index counted from 0
OSCClient(settings, index) ==
  LET s == settings[index + 1] IN
  [ ip |-> s.client_ip,
    port |-> s.client_port,
    browser_source |-> s.browser_source_name,
    osc_address |-> s.osc_address,
    event_name |-> IF s.event_name # "" THEN s.event_name ELSE SynthName(index),
    udp_client |-> s.client_ip # "" /\ s.client_port # 0
                     /\ ~UdpClientRaises(s.client_ip) ]

\* matches with the filter ignored
matchesAnything(client, address) == TRUE

\* OSCClient.matches(address)
matches(client, address) ==
  IF client.osc_address = <<>> THEN TRUE
  ELSE StartsWith(address, client.osc_address)

\* OSCClient.to_dict()
to_dict(c) ==
  [ client_ip |-> c.ip, client_port |-> c.port,
    browser_source_name |-> c.browser_source,
    osc_address |-> c.osc_address, event_name |-> c.event_name ]

\* [OSCClient(settings, i) for i in range(count)]
BuildClients(settings) ==
  [i \in 1 .. Len(settings) |-> OSCClient(settings, i - 1)]

\* a bridge published without the client snapshot
BridgeOfNoClients(cl) ==
  [registered |-> TRUE, clients |-> <<>>]

\* obs.osc_manager as update_settings publishes it
BridgeOf(cl) ==
  [registered |-> TRUE, clients |-> [i \in 1 .. Len(cl) |-> to_dict(cl[i])]]

\* getattr(obs, 'osc_manager', None) when the attribute is absent
NotRegistered == [registered |-> FALSE, clients |-> <<>>]


(***************************************************************************)
(* State.                                                                  *)
(***************************************************************************)
VARIABLES
  \* OSCManager (osc_io.py)
  clients,          \* self.clients
  server,           \* self.server: None or the bound port
  server_thread,    \* self.server_thread: None or a thread reference
  is_running,       \* self.is_running
  lock,             \* self._lock: "free" or the thread that holds it
  osc_manager,      \* obs.osc_manager, the bridge attribute
  oscBound,         \* ports on which the OSC service holds an open socket
  oscClosed,        \* the port of the socket the OSC service closed last
  oscScript,        \* host lifecycle of osc_io.py: "new", "loaded", "unloaded"
  \* http_server.py globals
  HTTP_SERVER_INSTANCE,
  SERVER_THREAD,
  CURRENT_HTTP_PORT,
  httpBound,        \* ports on which the HTTP service holds an open socket
  httpClosed,       \* the port of the socket the HTTP service closed last
  httpScript,       \* host lifecycle of http_server.py
  \* the OBS main thread, which runs every script callback
  mainPc,
  mainArg,
  \* one OSC datagram handler (_on_osc_received)
  lPc,
  lAddr,
  lArgs,
  dispatched,       \* the client indices _dispatch_to_obs was called for
  delivered,        \* the (eventName, address) pairs handed to a browser source
  lErr,             \* the handler ended by raising
  \* one HTTP connection thread serving POST /api/osc/send
  hPc,
  hEvent,
  hStatus,
  hXmit,            \* what OSCClient.send did for this request
  \* the file routes
  fsDirs,
  fsFiles,
  fReq,
  lastSave,
  \* the WSS config loader and GET /api/obswss
  WSS_DETAILS,
  wPc,
  wFile,
  wBefore,
  wResult,
  goodLoads,
  gResp,
  \* the outbound UDP sockets of the OSC clients
  udpOpen,          \* how many sockets of SimpleUDPClient objects are open
  \* midi_io.py globals
  midi_devices,     \* the list of MidiDevice objects
  midi_ports_in,    \* the port names enumerated at script_load
  midi_manager,     \* obs.midi_manager is set
  midiScript,       \* host lifecycle of midi_io.py
  savedPorts,       \* midi_port_name_<i> of the script's settings
  mCall,            \* the last call of send_midi_api and what it did
  oReq,             \* a POST whose path is none of the two routes of do_POST
  \* the thread that runs serve_forever of the OSC server
  listenerLoop,
  \* one call of midi_input_callback on the MIDI driver thread
  mIn,
  \* send_midi_api on an HTTP thread, statement by statement
  sendPc,
  sendTarget,
  sendRes,
  \* stop_midi on the main thread, statement by statement
  tearPc,
  tearIdx

oscVars == <<clients, server, server_thread, is_running, lock, osc_manager,
             oscBound, oscClosed, oscScript>>
httpSrvVars == <<HTTP_SERVER_INSTANCE, SERVER_THREAD, CURRENT_HTTP_PORT,
                 httpBound, httpClosed, httpScript>>
mainVars == <<mainPc, mainArg>>
listenerVars == <<lPc, lAddr, lArgs, dispatched, delivered, lErr>>
handlerVars == <<hPc, hEvent, hStatus, hXmit>>
fileVars == <<fsDirs, fsFiles, fReq, lastSave>>
wssVars == <<WSS_DETAILS, wPc, wFile, wBefore, wResult, goodLoads, gResp>>

udpVars == <<udpOpen>>
midiVars == <<midi_devices, midi_ports_in, midi_manager, midiScript,
              savedPorts, mCall, oReq>>

stopVars == <<listenerLoop>>
inputVars == <<mIn>>
raceVars == <<sendPc, sendTarget, sendRes, tearPc, tearIdx>>
fineVars == <<stopVars, inputVars, raceVars>>

vars == <<oscVars, httpSrvVars, mainVars, listenerVars, handlerVars,
          fileVars, wssVars, udpVars, midiVars, fineVars>>

IdleArg == [settings |-> <<>>, ip |-> "", port |-> None, then |-> "none"]


(***************************************************************************)
(* osc_io.py on the main thread: update_settings, start_server,            *)
(* stop_server and the script callbacks.                                   *)
(***************************************************************************)
\* server_ip values of the settings; binding "bad" raises
ServerIps == {"", "ip", "bad"}

\* stop_server without server.server_close(): the socket stays open
stop_server_no_close ==
  /\ UNCHANGED oscBound
  /\ oscClosed' = IF server # None THEN server ELSE oscClosed
  /\ server' = None
  /\ server_thread' = None
  /\ is_running' = FALSE

\* OSCManager.stop_server
stop_server ==
  /\ oscBound' = IF server # None THEN oscBound \ {server} ELSE oscBound
  /\ oscClosed' = IF server # None THEN server ELSE oscClosed
  /\ server' = None
  /\ server_thread' = None
  /\ is_running' = FALSE

\* update_settings, line 76: with self._lock (blocks while another thread holds it)
UpdateEnter(settings, then, ip, port) ==
  /\ mainPc = "idle"
  /\ lock = "free"
  /\ lock' = "main"
  /\ mainPc' = "upd_build"
  /\ mainArg' = [settings |-> settings, ip |-> ip, port |-> port, then |-> then]

\* script_load: update_settings, then start_server when ip and port are set
ScriptLoad(settings, ip, port) ==
  /\ oscScript = "new"
  /\ UpdateEnter(settings, IF ip # "" /\ port # 0 THEN "start" ELSE "none", ip, port)
  /\ oscScript' = "loaded"
  /\ UNCHANGED <<clients, server, server_thread, is_running, osc_manager,
                 oscBound, oscClosed>>
  /\ UNCHANGED <<httpSrvVars, listenerVars, handlerVars, fileVars, wssVars, udpVars, midiVars, fineVars>>

\* script_update
ScriptUpdate(settings) ==
  /\ oscScript = "loaded"
  /\ UpdateEnter(settings, "none", "", None)
  /\ UNCHANGED <<clients, server, server_thread, is_running, osc_manager,
                 oscBound, oscClosed, oscScript>>
  /\ UNCHANGED <<httpSrvVars, listenerVars, handlerVars, fileVars, wssVars, udpVars, midiVars, fineVars>>

\* the clients of a table that own a socket
Live(cl) == Cardinality({ i \in 1 .. Len(cl) : cl[i].udp_client })

\* update_settings, lines 77-78, the right-hand side: the OSCClient objects of
\* the new list are constructed and open their sockets
UpdateBuild ==
  /\ mainPc = "upd_build"
  /\ udpOpen' = udpOpen + Live(BuildClients(mainArg.settings))
  /\ mainPc' = "upd_store"
  /\ UNCHANGED <<oscVars, mainArg>>
  /\ UNCHANGED <<httpSrvVars, listenerVars, handlerVars, fileVars, wssVars, midiVars, fineVars>>

\* update_settings, line 78, the assignment: self.clients names the new list;
\* the old list loses its last reference and the sockets of its clients are
\* closed as the objects are freed
UpdateStore ==
  /\ mainPc = "upd_store"
  /\ clients' = BuildClients(mainArg.settings)
  /\ udpOpen' = udpOpen - Live(clients)
  /\ mainPc' = "upd_register"
  /\ UNCHANGED <<server, server_thread, is_running, lock, osc_manager,
                 oscBound, oscClosed, oscScript, mainArg>>
  /\ UNCHANGED <<httpSrvVars, listenerVars, handlerVars, fileVars, wssVars, midiVars, fineVars>>

\* update_settings ending with a stop of the listener
UpdateRegisterStopping ==
  /\ mainPc = "upd_register"
  /\ osc_manager' = BridgeOf(clients)
  /\ lock' = "free"
  /\ mainPc' = IF mainArg.then = "start" THEN "osc_start" ELSE "idle"
  /\ mainArg' = IF mainArg.then = "start" THEN mainArg ELSE IdleArg
  /\ stop_server
  /\ UNCHANGED <<clients, oscScript>>
  /\ UNCHANGED <<httpSrvVars, listenerVars, handlerVars, fileVars, wssVars, udpVars, midiVars, fineVars>>

\* update_settings, lines 81-84: the bridge is published, then the lock is left
UpdateRegister ==
  /\ mainPc = "upd_register"
  /\ osc_manager' = BridgeOf(clients)
  /\ lock' = "free"
  /\ mainPc' = IF mainArg.then = "start" THEN "osc_start" ELSE "idle"
  /\ mainArg' = IF mainArg.then = "start" THEN mainArg ELSE IdleArg
  /\ UNCHANGED <<clients, server, server_thread, is_running,
                 oscBound, oscClosed, oscScript>>
  /\ UNCHANGED <<httpSrvVars, listenerVars, handlerVars, fileVars, wssVars, udpVars, midiVars, fineVars>>

\* start_server, line 96, when script_load calls it
LoadStart ==
  /\ mainPc = "osc_start"
  /\ stop_server
  /\ mainPc' = "osc_bind"
  /\ UNCHANGED <<clients, lock, osc_manager, oscScript, mainArg>>
  /\ UNCHANGED <<httpSrvVars, listenerVars, handlerVars, fileVars, wssVars, udpVars, midiVars, fineVars>>

\* the "Restart Server" button: start_server(ip, port), line 96
RestartButton(ip, port) ==
  /\ mainPc = "idle"
  /\ oscScript = "loaded"
  /\ stop_server
  /\ mainPc' = "osc_bind"
  /\ mainArg' = [IdleArg EXCEPT !.ip = ip, !.port = port]
  /\ UNCHANGED <<clients, lock, osc_manager, oscScript>>
  /\ UNCHANGED <<httpSrvVars, listenerVars, handlerVars, fileVars, wssVars, udpVars, midiVars, fineVars>>

\* ThreadingOSCUDPServer((ip, port), disp) raises
OscBindRaises(ip, port) ==
  ip = "bad" \/ port \in BusyPorts \/ port \in oscBound \/ port \notin Ports

\* start_server with is_running set before the listener is constructed
OscBindRunningFirst ==
  /\ mainPc = "osc_bind"
  /\ \/ /\ ~OscBindRaises(mainArg.ip, mainArg.port)
        /\ server' = mainArg.port
        /\ oscBound' = oscBound \cup {mainArg.port}
        /\ server_thread' = 1
     \/ /\ OscBindRaises(mainArg.ip, mainArg.port)
        /\ UNCHANGED <<server, oscBound, server_thread>>
  /\ is_running' = TRUE
  /\ mainPc' = "idle"
  /\ mainArg' = IdleArg
  /\ UNCHANGED <<clients, lock, osc_manager, oscClosed, oscScript>>
  /\ UNCHANGED <<httpSrvVars, listenerVars, handlerVars, fileVars, wssVars, udpVars, midiVars, fineVars>>

\* start_server, lines 97-106
OscBind ==
  /\ mainPc = "osc_bind"
  /\ \/ /\ ~OscBindRaises(mainArg.ip, mainArg.port)
        /\ server' = mainArg.port
        /\ oscBound' = oscBound \cup {mainArg.port}
        /\ server_thread' = 1
        /\ is_running' = TRUE
     \/ /\ OscBindRaises(mainArg.ip, mainArg.port)
        /\ UNCHANGED <<server, oscBound, server_thread, is_running>>
  /\ mainPc' = "idle"
  /\ mainArg' = IdleArg
  /\ UNCHANGED <<clients, lock, osc_manager, oscClosed, oscScript>>
  /\ UNCHANGED <<httpSrvVars, listenerVars, handlerVars, fileVars, wssVars, udpVars, midiVars, fineVars>>

\* script_unload, line 170: MANAGER.stop_server()
ScriptUnload ==
  /\ mainPc = "idle"
  /\ oscScript = "loaded"
  /\ stop_server
  /\ mainPc' = "osc_unreg"
  /\ oscScript' = "unloaded"
  /\ UNCHANGED <<clients, lock, osc_manager, mainArg>>
  /\ UNCHANGED <<httpSrvVars, listenerVars, handlerVars, fileVars, wssVars, udpVars, midiVars, fineVars>>

\* script_unload without its del: the bridge attribute stays
UnregisterSkipped ==
  /\ mainPc = "osc_unreg"
  /\ mainPc' = "idle"
  /\ UNCHANGED <<oscVars, mainArg>>
  /\ UNCHANGED <<httpSrvVars, listenerVars, handlerVars, fileVars, wssVars, udpVars, midiVars, fineVars>>

\* script_unload, lines 171-172: del obs.osc_manager
Unregister ==
  /\ mainPc = "osc_unreg"
  /\ osc_manager' = NotRegistered
  /\ mainPc' = "idle"
  /\ UNCHANGED <<clients, server, server_thread, is_running, lock,
                 oscBound, oscClosed, oscScript, mainArg>>
  /\ UNCHANGED <<httpSrvVars, listenerVars, handlerVars, fileVars, wssVars, udpVars, midiVars, fineVars>>


(***************************************************************************)
(* http_server.py on the main thread: start_server, stop_server and the    *)
(* script callbacks.                                                       *)
(***************************************************************************)
\* script_load: "port = 8080 # Default"
DefaultHttpPort == 8080

HttpPorts == { DefaultHttpPort + i : i \in 0 .. MaxPort - 1 }
\* TCP ports another process listens on
BusyHttpPorts == {DefaultHttpPort + 2}

\* stop_server() of http_server.py
http_stop_server ==
  /\ httpBound' = IF HTTP_SERVER_INSTANCE # None
                    THEN httpBound \ {HTTP_SERVER_INSTANCE} ELSE httpBound
  /\ httpClosed' = IF HTTP_SERVER_INSTANCE # None
                     THEN HTTP_SERVER_INSTANCE ELSE httpClosed
  /\ HTTP_SERVER_INSTANCE' = None
  /\ SERVER_THREAD' = None

\* script_load of http_server.py, up to the stop_server() that start_server begins with
HttpScriptLoad(http_port) ==
  /\ mainPc = "idle"
  /\ httpScript = "new"
  /\ httpScript' = "loaded"
  /\ CURRENT_HTTP_PORT' = IF http_port = 0 THEN DefaultHttpPort ELSE http_port
  /\ http_stop_server
  /\ mainPc' = "http_bind"
  /\ mainArg' = [IdleArg EXCEPT !.port = CURRENT_HTTP_PORT']
  /\ UNCHANGED <<oscVars, listenerVars, handlerVars, fileVars, wssVars, udpVars, midiVars, fineVars>>

\* on_port_changed
OnPortChanged(new_port) ==
  /\ mainPc = "idle"
  /\ httpScript = "loaded"
  /\ \/ /\ new_port # CURRENT_HTTP_PORT
        /\ CURRENT_HTTP_PORT' = new_port
        /\ http_stop_server
        /\ mainPc' = "http_bind"
        /\ mainArg' = [IdleArg EXCEPT !.port = new_port]
        /\ UNCHANGED httpScript
     \/ /\ new_port = CURRENT_HTTP_PORT
        /\ UNCHANGED <<httpSrvVars, mainVars>>
  /\ UNCHANGED <<oscVars, listenerVars, handlerVars, fileVars, wssVars, udpVars, midiVars, fineVars>>

\* ThreadingHTTPServer(("127.0.0.1", port), OBSServerHandler) raises
HttpBindRaises(port) ==
  port \in BusyHttpPorts \/ port \in httpBound \/ port \notin HttpPorts

\* start_server, lines 285-296
HttpBind ==
  /\ mainPc = "http_bind"
  /\ \/ /\ ~HttpBindRaises(mainArg.port)
        /\ HTTP_SERVER_INSTANCE' = mainArg.port
        /\ httpBound' = httpBound \cup {mainArg.port}
        /\ SERVER_THREAD' = 1
     \/ /\ HttpBindRaises(mainArg.port)
        /\ HTTP_SERVER_INSTANCE' = None
        /\ UNCHANGED <<httpBound, SERVER_THREAD>>
  /\ mainPc' = "idle"
  /\ mainArg' = IdleArg
  /\ UNCHANGED <<CURRENT_HTTP_PORT, httpClosed, httpScript>>
  /\ UNCHANGED <<oscVars, listenerVars, handlerVars, fileVars, wssVars, udpVars, midiVars, fineVars>>

\* script_unload of http_server.py
HttpScriptUnload ==
  /\ mainPc = "idle"
  /\ httpScript = "loaded"
  /\ httpScript' = "unloaded"
  /\ http_stop_server
  /\ UNCHANGED <<CURRENT_HTTP_PORT, mainVars>>
  /\ UNCHANGED <<oscVars, listenerVars, handlerVars, fileVars, wssVars, udpVars, midiVars, fineVars>>

(***************************************************************************)
(* The OSC listener: one datagram handler running _on_osc_received.        *)
(***************************************************************************)
\* the argument lists of inbound datagrams: floats, or a blob (bytes),
\* which json.dumps refuses
ArgKinds == {"floats", "blob"}

\* _dispatch_to_obs(client, address, args)
dispatch_to_obs(client, address, args) ==
  IF client.browser_source \notin Sources
    THEN [delivered |-> <<>>, err |-> FALSE]
  ELSE IF args = "blob"
    THEN [delivered |-> <<>>, err |-> TRUE]
  ELSE [delivered |-> <<[eventName |-> client.event_name, address |-> address]>>,
        err |-> FALSE]

\* the loop of _on_osc_received without its break
RECURSIVE ScanNoBreak(_, _, _, _)
ScanNoBreak(cl, address, args, i) ==
  IF i > Len(cl) THEN [dispatched |-> <<>>, delivered |-> <<>>, err |-> FALSE]
  ELSE IF matches(cl[i], address) THEN
    LET d == dispatch_to_obs(cl[i], address, args)
        rest == ScanNoBreak(cl, address, args, i + 1)
    IN IF d.err THEN [dispatched |-> <<i>>, delivered |-> <<>>, err |-> TRUE]
       ELSE [dispatched |-> <<i>> \o rest.dispatched,
             delivered |-> d.delivered \o rest.delivered, err |-> rest.err]
  ELSE ScanNoBreak(cl, address, args, i + 1)

\* _on_osc_received, lines 125-128: the loop from table position i on
RECURSIVE ScanFrom(_, _, _, _)
ScanFrom(cl, address, args, i) ==
  IF i > Len(cl) THEN [dispatched |-> <<>>, delivered |-> <<>>, err |-> FALSE]
  ELSE IF matches(cl[i], address) THEN
    LET d == dispatch_to_obs(cl[i], address, args)
    IN [dispatched |-> <<i>>, delivered |-> d.delivered, err |-> d.err]
  ELSE ScanFrom(cl, address, args, i + 1)

\* a datagram arrives on the bound socket and its handler starts
OscReceive(address, args) ==
  /\ lPc = "idle"
  /\ server # None
  /\ lPc' = "wait"
  /\ lAddr' = address
  /\ lArgs' = args
  /\ UNCHANGED <<dispatched, delivered, lErr>>
  /\ UNCHANGED <<oscVars, httpSrvVars, mainVars, handlerVars, fileVars, wssVars, udpVars, midiVars, fineVars>>

\* _on_osc_received entering its scan without waiting for the lock
OscAcquireNoWait ==
  /\ lPc = "wait"
  /\ lock' = "listener"
  /\ lPc' = "scan"
  /\ UNCHANGED <<clients, server, server_thread, is_running, osc_manager,
                 oscBound, oscClosed, oscScript>>
  /\ UNCHANGED <<lAddr, lArgs, dispatched, delivered, lErr>>
  /\ UNCHANGED <<httpSrvVars, mainVars, handlerVars, fileVars, wssVars, udpVars, midiVars, fineVars>>

\* _on_osc_received, line 124: with self._lock
OscAcquire ==
  /\ lPc = "wait"
  /\ lock = "free"
  /\ lock' = "listener"
  /\ lPc' = "scan"
  /\ UNCHANGED <<clients, server, server_thread, is_running, osc_manager,
                 oscBound, oscClosed, oscScript>>
  /\ UNCHANGED <<lAddr, lArgs, dispatched, delivered, lErr>>
  /\ UNCHANGED <<httpSrvVars, mainVars, handlerVars, fileVars, wssVars, udpVars, midiVars, fineVars>>

\* _on_osc_received, lines 125-128
OscScan ==
  /\ lPc = "scan"
  /\ LET r == ScanFrom(clients, lAddr, lArgs, 1) IN
       /\ dispatched' = r.dispatched
       /\ delivered' = r.delivered
       /\ lErr' = r.err
  /\ lPc' = "exit"
  /\ UNCHANGED <<lAddr, lArgs>>
  /\ UNCHANGED <<oscVars, httpSrvVars, mainVars, handlerVars, fileVars, wssVars, udpVars, midiVars, fineVars>>

\* a with block whose lock stays held when the body raised
OscExitHeldOnError ==
  /\ lPc = "exit"
  /\ lock' = IF lErr THEN lock ELSE "free"
  /\ lPc' = "idle"
  /\ lAddr' = <<>>
  /\ lArgs' = "floats"
  /\ dispatched' = <<>>
  /\ delivered' = <<>>
  /\ lErr' = FALSE
  /\ UNCHANGED <<clients, server, server_thread, is_running, osc_manager,
                 oscBound, oscClosed, oscScript>>
  /\ UNCHANGED <<httpSrvVars, mainVars, handlerVars, fileVars, wssVars, udpVars, midiVars, fineVars>>

\* the with block is left, by falling out of it or by the exception
OscExit ==
  /\ lPc = "exit"
  /\ lock' = "free"
  /\ lPc' = "idle"
  /\ lAddr' = <<>>
  /\ lArgs' = "floats"
  /\ dispatched' = <<>>
  /\ delivered' = <<>>
  /\ lErr' = FALSE
  /\ UNCHANGED <<clients, server, server_thread, is_running, osc_manager,
                 oscBound, oscClosed, oscScript>>
  /\ UNCHANGED <<httpSrvVars, mainVars, handlerVars, fileVars, wssVars, udpVars, midiVars, fineVars>>


(***************************************************************************)
(* POST /api/osc/send on one HTTP connection thread, and the bridge's      *)
(* _bridge_send that it calls.                                             *)
(***************************************************************************)
\* the bodies of the requests: event_name and address ("" and <<>>: absent)
SendRequests ==
  { [event_name |-> "x", address |-> AddrA],
    [event_name |-> "osc_event_0", address |-> AddrA],
    [event_name |-> "zz", address |-> AddrA],
    [event_name |-> "", address |-> AddrA],
    [event_name |-> "x", address |-> <<>>] }

NoRequest == [event_name |-> "", address |-> <<>>]

\* next((c for c in seq if c.event_name == name), None): the position, 0 for None
FirstNamed(seq, name) ==
  IF \E i \in 1 .. Len(seq) : seq[i].event_name = name
    THEN CHOOSE i \in 1 .. Len(seq) :
           /\ seq[i].event_name = name
           /\ \A j \in 1 .. i - 1 : seq[j].event_name # name
    ELSE 0

\* ResolveStatus with an absent registry taken for one without clients
ResolveStatusNoRegistryCheck(request, registry) ==
  IF request.address = <<>> \/ request.event_name = "" THEN 400
  ELSE IF FirstNamed(registry.clients, request.event_name) = 0 THEN 404
  ELSE 0

\* do_POST, lines 230-256, with the registry read as `registry`
ResolveStatus(request, registry) ==
  IF request.address = <<>> \/ request.event_name = "" THEN 400
  ELSE IF ~registry.registered THEN 503
  ELSE IF FirstNamed(registry.clients, request.event_name) = 0 THEN 404
  ELSE 0

\* a request is accepted by the running listener and handed to a thread
HttpRequest(request) ==
  /\ hPc = "idle"
  /\ HTTP_SERVER_INSTANCE # None
  /\ hPc' = "recv"
  /\ hEvent' = request
  /\ UNCHANGED <<hStatus, hXmit>>
  /\ UNCHANGED <<oscVars, httpSrvVars, mainVars, listenerVars, fileVars, wssVars, udpVars, midiVars, fineVars>>

\* do_POST, lines 230-256: the body is checked, the registry read, the client looked up
HttpResolve ==
  /\ hPc = "recv"
  /\ LET st == ResolveStatus(hEvent, osc_manager) IN
       /\ hStatus' = st
       /\ hPc' = IF st = 0 THEN "call" ELSE "done"
  /\ UNCHANGED <<hEvent, hXmit>>
  /\ UNCHANGED <<oscVars, httpSrvVars, mainVars, listenerVars, fileVars, wssVars, udpVars, midiVars, fineVars>>

\* _bridge_send, line 88: with self._lock
HttpAcquire ==
  /\ hPc = "call"
  /\ lock = "free"
  /\ lock' = "http"
  /\ hPc' = "locked"
  /\ UNCHANGED <<clients, server, server_thread, is_running, osc_manager,
                 oscBound, oscClosed, oscScript>>
  /\ UNCHANGED <<hEvent, hStatus, hXmit>>
  /\ UNCHANGED <<httpSrvVars, mainVars, listenerVars, fileVars, wssVars, udpVars, midiVars, fineVars>>

\* _bridge_send, lines 90-92, and OSCClient.send
HttpBridgeSend ==
  /\ hPc = "locked"
  /\ LET target == FirstNamed(clients, hEvent.event_name) IN
       \/ /\ target = 0
          /\ hXmit' = "notarget"
       \/ /\ target # 0
          /\ ~clients[target].udp_client
          /\ hXmit' = "nosocket"
       \/ /\ target # 0
          /\ clients[target].udp_client
          /\ hXmit' = "sent"
       \/ /\ target # 0
          /\ clients[target].udp_client
          /\ hXmit' = "raised"
  /\ hPc' = "unlock"
  /\ UNCHANGED <<hEvent, hStatus>>
  /\ UNCHANGED <<oscVars, httpSrvVars, mainVars, listenerVars, fileVars, wssVars, udpVars, midiVars, fineVars>>

\* _bridge_send returns; do_POST, line 261: 200 {"success": true}
HttpReturn ==
  /\ hPc = "unlock"
  /\ lock' = "free"
  /\ hStatus' = 200
  /\ hPc' = "done"
  /\ UNCHANGED <<clients, server, server_thread, is_running, osc_manager,
                 oscBound, oscClosed, oscScript>>
  /\ UNCHANGED <<hEvent, hXmit>>
  /\ UNCHANGED <<httpSrvVars, mainVars, listenerVars, fileVars, wssVars, udpVars, midiVars, fineVars>>

\* the response is written and the connection thread ends
HttpClose ==
  /\ hPc = "done"
  /\ hPc' = "idle"
  /\ hEvent' = NoRequest
  /\ hStatus' = 0
  /\ hXmit' = "none"
  /\ UNCHANGED <<oscVars, httpSrvVars, mainVars, listenerVars, fileVars, wssVars, udpVars, midiVars, fineVars>>


(***************************************************************************)
(* Initial state: the modules are imported, no script_load has run.        *)
(***************************************************************************)
InitOsc ==
  /\ clients = <<>>
  /\ server = None
  /\ server_thread = None
  /\ is_running = FALSE
  /\ lock = "free"
  /\ osc_manager = NotRegistered
  /\ oscBound = {}
  /\ oscClosed = None
  /\ oscScript = "new"

InitHttpSrv ==
  /\ HTTP_SERVER_INSTANCE = None
  /\ SERVER_THREAD = None
  /\ CURRENT_HTTP_PORT = DefaultHttpPort
  /\ httpBound = {}
  /\ httpClosed = None
  /\ httpScript = "new"

InitThreads ==
  /\ mainPc = "idle"
  /\ mainArg = IdleArg
  /\ lPc = "idle"
  /\ lAddr = <<>>
  /\ lArgs = "floats"
  /\ dispatched = <<>>
  /\ delivered = <<>>
  /\ lErr = FALSE
  /\ hPc = "idle"
  /\ hEvent = NoRequest
  /\ hStatus = 0
  /\ hXmit = "none"


(***************************************************************************)
(* The file routes of http_server.py.  A path is a sequence of characters, *)
(* "/" the separator; "..", "." and ".json" stand for those character      *)
(* runs.  The filesystem has no symbolic links.                            *)
(***************************************************************************)
\* os.path.dirname(os.path.dirname(os.path.abspath(__file__)))
SCRIPT_DIR == <<"/", "r">>

DotDot == <<"..">>
Dot == <<".">>

\* str.split('/')
RECURSIVE SplitAcc(_, _, _)
SplitAcc(s, i, cur) ==
  IF i > Len(s) THEN <<cur>>
  ELSE IF s[i] = "/" THEN <<cur>> \o SplitAcc(s, i + 1, <<>>)
  ELSE SplitAcc(s, i + 1, Append(cur, s[i]))

split(s) == SplitAcc(s, 1, <<>>)

\* '/'.join(comps)
RECURSIVE JoinSlash(_)
JoinSlash(comps) ==
  IF comps = <<>> THEN <<>>
  ELSE IF Len(comps) = 1 THEN comps[1]
  ELSE comps[1] \o <<"/">> \o JoinSlash(Tail(comps))

\* os.path.join(a, b) of posixpath
join(a, b) ==
  IF b # <<>> /\ b[1] = "/" THEN b
  ELSE IF a = <<>> \/ a[Len(a)] = "/" THEN a \o b
  ELSE a \o <<"/">> \o b

\* the loop of posixpath.normpath over the components
RECURSIVE NormComps(_, _, _, _)
NormComps(comps, i, new_comps, initial_slashes) ==
  IF i > Len(comps) THEN new_comps
  ELSE LET comp == comps[i] IN
    IF comp = <<>> \/ comp = Dot
      THEN NormComps(comps, i + 1, new_comps, initial_slashes)
    ELSE IF \/ comp # DotDot
            \/ (initial_slashes = 0 /\ new_comps = <<>>)
            \/ (new_comps # <<>> /\ new_comps[Len(new_comps)] = DotDot)
      THEN NormComps(comps, i + 1, Append(new_comps, comp), initial_slashes)
    ELSE IF new_comps # <<>>
      THEN NormComps(comps, i + 1, SubSeq(new_comps, 1, Len(new_comps) - 1),
                     initial_slashes)
    ELSE NormComps(comps, i + 1, new_comps, initial_slashes)

\* os.path.normpath of posixpath
normpath(path) ==
  IF path = <<>> THEN Dot
  ELSE
    LET slashes ==
          IF path[1] # "/" THEN 0
          ELSE IF Len(path) >= 2 /\ path[2] = "/" /\ ~(Len(path) >= 3 /\ path[3] = "/")
            THEN 2
          ELSE 1
        body == JoinSlash(NormComps(split(path), 1, <<>>, slashes))
        full == [k \in 1 .. slashes |-> "/"] \o body
    IN IF full = <<>> THEN Dot ELSE full

\* the check every route makes: not os.path.normpath(p).startswith(SCRIPT_DIR)
AccessDenied(p) == ~StartsWith(normpath(p), SCRIPT_DIR)

\* filename.endswith('.json')
EndsWithJson(name) == name # <<>> /\ name[Len(name)] = ".json"

\* the path of a directory given by its components below "/"
PathOf(segs) == <<"/">> \o JoinSlash(segs)

\* How the operating system walks an absolute path: every component is
\* looked up in the directory reached so far, which must exist.
RECURSIVE Walk(_, _, _, _)
Walk(comps, i, cur, dirs) ==
  IF i > Len(comps) THEN [ok |-> TRUE, at |-> PathOf(cur)]
  ELSE LET comp == comps[i] IN
    IF comp = <<>> THEN Walk(comps, i + 1, cur, dirs)
    ELSE IF PathOf(cur) \notin dirs THEN [ok |-> FALSE, at |-> PathOf(cur)]
    ELSE IF comp = Dot THEN Walk(comps, i + 1, cur, dirs)
    ELSE IF comp = DotDot
      THEN Walk(comps, i + 1,
                IF cur = <<>> THEN cur ELSE SubSeq(cur, 1, Len(cur) - 1), dirs)
    ELSE Walk(comps, i + 1, Append(cur, comp), dirs)

Resolve(path, dirs) == Walk(split(path), 1, <<>>, dirs)

\* os.path.exists(path)
exists(path, dirs, files) ==
  LET r == Resolve(path, dirs) IN r.ok /\ (r.at \in dirs \/ r.at \in DOMAIN files)

\* the directories os.makedirs(path, exist_ok=True) leaves in place: one per
\* prefix of the path
MakeDirs(path, dirs) ==
  LET comps == split(path) IN
  dirs \cup { normpath(JoinSlash(SubSeq(comps, 1, k))) : k \in 2 .. Len(comps) }

\* os.makedirs raises: a prefix of the path is a file
MakeDirsRaises(path, files) ==
  LET comps == split(path) IN
  \E k \in 2 .. Len(comps) : normpath(JoinSlash(SubSeq(comps, 1, k))) \in DOMAIN files

\* the directory a normalized path lies in, and its last component
ParentOf(p) ==
  LET comps == split(p) IN normpath(JoinSlash(SubSeq(comps, 1, Len(comps) - 1)) \o <<"/">>)
BaseName(p) == LET comps == split(p) IN comps[Len(comps)]

\* json.dump(data, f, indent=2): the text written for a value
Dump(data) == <<"json", data>>

\* the parameters of the requests (<<>>: the parameter is absent)
Folders ==
  { <<"a">>, <<"..", "/", "r", "x">>, <<"..", "/", "e">>, <<>> }
Filenames ==
  { <<"f", ".json">>, <<"f">>, <<"..", "/", "..", "/", "s", ".json">>, <<>> }
\* the data member of a save body; "null" is JSON null
DataValues == {"null", "d1"}

NoFileReq ==
  [route |-> "none", folder |-> <<>>, filename |-> <<>>, data |-> "null",
   status |-> 0, body |-> <<>>, names |-> {}, reads |-> {}, writes |-> {},
   mkdirs |-> {}]

\* a response of `status` to a request that touched no file
Answer(route, folder, filename, data, status) ==
  [NoFileReq EXCEPT !.route = route, !.folder = folder, !.filename = filename,
                    !.data = data, !.status = status]

\* do_GET, lines 118-140: GET /api/file/list?folder=F
list_response(folder, dirs, files) ==
  LET target_dir == join(SCRIPT_DIR, folder)
      at == Resolve(target_dir, dirs).at
  IN
  IF folder = <<>> THEN Answer("list", folder, <<>>, "null", 400)
  ELSE IF AccessDenied(target_dir) THEN Answer("list", folder, <<>>, "null", 403)
  ELSE IF ~exists(target_dir, dirs, files)
    THEN Answer("list", folder, <<>>, "null", 200)
  ELSE IF at \notin dirs THEN Answer("list", folder, <<>>, "null", 500)
  ELSE [Answer("list", folder, <<>>, "null", 200) EXCEPT
          !.names = { BaseName(f) : f \in { g \in DOMAIN files :
                        ParentOf(g) = at /\ EndsWithJson(BaseName(g)) } },
          !.reads = {at}]

\* do_GET, lines 144-175: GET /api/file/get?folder=F&filename=N
get_response(folder, filename, dirs, files) ==
  LET target_dir == join(SCRIPT_DIR, folder)
      full_path == join(target_dir, filename)
      at == Resolve(full_path, dirs).at
  IN
  IF folder = <<>> \/ filename = <<>> THEN Answer("get", folder, filename, "null", 400)
  ELSE IF AccessDenied(full_path) THEN Answer("get", folder, filename, "null", 403)
  ELSE IF ~exists(full_path, dirs, files)
    THEN Answer("get", folder, filename, "null", 404)
  ELSE IF at \notin DOMAIN files THEN Answer("get", folder, filename, "null", 500)
  ELSE [Answer("get", folder, filename, "null", 200) EXCEPT
          !.body = files[at], !.reads = {at}]

\* do_POST, lines 202-203: the suffix is appended when missing
SaveName(filename) ==
  IF ~EndsWithJson(filename) THEN filename \o <<".json">> ELSE filename


\* do_POST, lines 185-225: POST /api/file/save; the response and the
\* filesystem it leaves
save_result(folder, filename, data, dirs, files) ==
  LET target_dir == join(SCRIPT_DIR, folder)
      full_path == join(target_dir, SaveName(filename))
      made == ~exists(target_dir, dirs, files)
      dirs1 == IF made /\ ~MakeDirsRaises(target_dir, files)
                 THEN MakeDirs(target_dir, dirs) ELSE dirs
      r == Resolve(full_path, dirs1)
      unchanged(status) ==
        [resp |-> Answer("save", folder, filename, data, status),
         dirs |-> dirs, files |-> files]
  IN
  IF folder = <<>> \/ filename = <<>> \/ data = "null" THEN unchanged(400)
  ELSE IF AccessDenied(target_dir) THEN unchanged(403)
  ELSE IF made /\ MakeDirsRaises(target_dir, files) THEN unchanged(500)
  ELSE IF ~r.ok \/ r.at \in dirs1
    THEN [resp |-> [Answer("save", folder, filename, data, 500) EXCEPT
                      !.mkdirs = dirs1 \ dirs],
          dirs |-> dirs1, files |-> files]
  ELSE [resp |-> [Answer("save", folder, filename, data, 200) EXCEPT
                    !.body = full_path, !.writes = {r.at}, !.mkdirs = dirs1 \ dirs],
        dirs |-> dirs1,
        files |-> (r.at :> Dump(data)) @@ files]

\* what the next request finds as the request before it: the parameters of a
\* save that was answered 200, or NoSave
NoSave == [folder |-> <<>>, filename |-> <<>>, data |-> "null"]
SaveOf(req) ==
  IF req.route = "save" /\ req.status = 200
    THEN [folder |-> req.folder, filename |-> req.filename, data |-> req.data]
    ELSE NoSave

\* GET /api/file/list on a connection thread of the running listener
FileList(folder) ==
  /\ HTTP_SERVER_INSTANCE # None
  /\ fReq' = list_response(folder, fsDirs, fsFiles)
  /\ lastSave' = SaveOf(fReq)
  /\ UNCHANGED <<fsDirs, fsFiles>>
  /\ UNCHANGED <<oscVars, httpSrvVars, mainVars, listenerVars, handlerVars, wssVars, udpVars, midiVars, fineVars>>

\* GET /api/file/get
FileGet(folder, filename) ==
  /\ HTTP_SERVER_INSTANCE # None
  /\ fReq' = get_response(folder, filename, fsDirs, fsFiles)
  /\ lastSave' = SaveOf(fReq)
  /\ UNCHANGED <<fsDirs, fsFiles>>
  /\ UNCHANGED <<oscVars, httpSrvVars, mainVars, listenerVars, handlerVars, wssVars, udpVars, midiVars, fineVars>>

\* POST /api/file/save
FileSave(folder, filename, data) ==
  /\ HTTP_SERVER_INSTANCE # None
  /\ LET s == save_result(folder, filename, data, fsDirs, fsFiles) IN
       /\ fReq' = s.resp
       /\ fsDirs' = s.dirs
       /\ fsFiles' = s.files
  /\ lastSave' = SaveOf(fReq)
  /\ UNCHANGED <<oscVars, httpSrvVars, mainVars, listenerVars, handlerVars, wssVars, udpVars, midiVars, fineVars>>

InitFile ==
  /\ fsDirs = { <<"/">>, SCRIPT_DIR, <<"/", "r", "x">> }
  /\ fsFiles = (<<"/", "r", "x", "/", "f", ".json">> :> <<"raw", "other">>)
  /\ fReq = NoFileReq
  /\ lastSave = NoSave


(***************************************************************************)
(* The WSS config loader (update_wss_details) on the main thread and       *)
(* GET /api/obswss on a connection thread.                                 *)
(***************************************************************************)
\* WSS_DETAILS, line 15
DefaultWssPort == 4455

WssDefaults == [IP |-> "localhost", PORT |-> DefaultWssPort, PW |-> ""]

\* server_port values of a config file: a JSON integer, a numeric string,
\* or a value int() refuses
PortValues ==
  { [t |-> "int", v |-> n] : n \in 1 .. MaxWssPort }
    \cup { [t |-> "str", v |-> 1], [t |-> "bad", v |-> 0] }

\* int(x) raises ValueError or TypeError
IntRaises(x) == x.t = "bad"
\* int(x)
IntOf(x) == x.v

\* what source_path holds: no file, text that is no JSON, a JSON value that
\* is no object, an object without one of the keys, or an object with both
ConfigFiles ==
  { [kind |-> k, pw |-> "", port |-> [t |-> "bad", v |-> 0]] :
      k \in {"missing", "malformed", "notdict", "nopw", "noport"} }
    \cup { [kind |-> "ok", pw |-> w, port |-> x] : w \in {"p", "q"}, x \in PortValues }

NoConfig == [kind |-> "missing", pw |-> "", port |-> [t |-> "bad", v |-> 0]]
NoResponse == [IP |-> "", PORT |-> 0, PW |-> ""]

\* on_wss_path_changed: update_wss_details(path), lines 45-56
WssLoad(file) ==
  /\ mainPc = "idle"
  /\ httpScript = "loaded"
  /\ mainPc' = "wss"
  /\ wFile' = file
  /\ wBefore' = WSS_DETAILS
  /\ \/ /\ file.kind # "ok"
        /\ wPc' = "ret"
        /\ wResult' = "rejected"
     \/ /\ file.kind = "ok"
        /\ wPc' = "pw"
        /\ UNCHANGED wResult
  /\ UNCHANGED <<WSS_DETAILS, goodLoads, gResp, mainArg>>
  /\ UNCHANGED <<oscVars, httpSrvVars, listenerVars, handlerVars, fileVars,
               udpVars, midiVars, fineVars>>

\* update_wss_details, line 59
WssWritePW ==
  /\ wPc = "pw"
  /\ WSS_DETAILS' = [WSS_DETAILS EXCEPT !.PW = wFile.pw]
  /\ wPc' = "port"
  /\ UNCHANGED <<wFile, wBefore, wResult, goodLoads, gResp, mainVars>>
  /\ UNCHANGED <<oscVars, httpSrvVars, listenerVars, handlerVars, fileVars,
               udpVars, midiVars, fineVars>>

\* update_wss_details, line 60, and the handler of line 69 when int() raises
WssWritePort ==
  /\ wPc = "port"
  /\ \/ /\ ~IntRaises(wFile.port)
        /\ WSS_DETAILS' = [WSS_DETAILS EXCEPT !.PORT = IntOf(wFile.port)]
        /\ wPc' = "ip"
        /\ UNCHANGED wResult
     \/ /\ IntRaises(wFile.port)
        /\ wPc' = "ret"
        /\ wResult' = "rejected"
        /\ UNCHANGED WSS_DETAILS
  /\ UNCHANGED <<wFile, wBefore, goodLoads, gResp, mainVars>>
  /\ UNCHANGED <<oscVars, httpSrvVars, listenerVars, handlerVars, fileVars,
               udpVars, midiVars, fineVars>>

\* update_wss_details, lines 63-65
WssWriteIP ==
  /\ wPc = "ip"
  /\ WSS_DETAILS' = [WSS_DETAILS EXCEPT !.IP = "localhost"]
  /\ wPc' = "ret"
  /\ wResult' = "ok"
  /\ goodLoads' = goodLoads \cup {[PORT |-> WSS_DETAILS.PORT, PW |-> WSS_DETAILS.PW]}
  /\ UNCHANGED <<wFile, wBefore, gResp, mainVars>>
  /\ UNCHANGED <<oscVars, httpSrvVars, listenerVars, handlerVars, fileVars,
               udpVars, midiVars, fineVars>>

\* update_wss_details has returned and on_wss_path_changed ends
WssReturn ==
  /\ wPc = "ret"
  /\ wPc' = "idle"
  /\ wFile' = NoConfig
  /\ wBefore' = WssDefaults
  /\ wResult' = "none"
  /\ mainPc' = "idle"
  /\ UNCHANGED <<WSS_DETAILS, goodLoads, gResp, mainArg>>
  /\ UNCHANGED <<oscVars, httpSrvVars, listenerVars, handlerVars, fileVars,
               udpVars, midiVars, fineVars>>

\* do_GET, lines 112-114: self._send_json(WSS_DETAILS)
ObsWssGet ==
  /\ HTTP_SERVER_INSTANCE # None
  /\ gResp = NoResponse
  /\ gResp' = WSS_DETAILS
  /\ UNCHANGED <<WSS_DETAILS, wPc, wFile, wBefore, wResult, goodLoads>>
  /\ UNCHANGED <<oscVars, httpSrvVars, mainVars, listenerVars, handlerVars, fileVars,
               udpVars, midiVars, fineVars>>

\* the response is written and the connection thread ends
ObsWssDone ==
  /\ gResp # NoResponse
  /\ gResp' = NoResponse
  /\ UNCHANGED <<WSS_DETAILS, wPc, wFile, wBefore, wResult, goodLoads>>
  /\ UNCHANGED <<oscVars, httpSrvVars, mainVars, listenerVars, handlerVars, fileVars,
               udpVars, midiVars, fineVars>>

InitWss ==
  /\ WSS_DETAILS = WssDefaults
  /\ wPc = "idle"
  /\ wFile = NoConfig
  /\ wBefore = WssDefaults
  /\ wResult = "none"
  /\ goodLoads = {}
  /\ gResp = NoResponse

(***************************************************************************)
(* The outbound UDP sockets of the OSC clients.                            *)
(***************************************************************************)
InitUdp == udpOpen = 0

(***************************************************************************)
(* midi_io.py: the device table, script_load, script_unload and            *)
(* send_midi_api.                                                          *)
(***************************************************************************)
\* the largest number_of_devices a settings object carries
MaxDevices == 2
\* hexadecimal strings handed to send_midi_api have up to MaxHexLen characters
MaxHexLen == 4
\* lists handed to send_midi_api have up to MaxListLen values
MaxListLen == 2

\* a handle field of a MidiDevice: None, or an rtmidi object whose port is
\* open or not
NoHandle == [obj |-> FALSE, open |-> FALSE]
OpenHandle == [obj |-> TRUE, open |-> TRUE]
UnopenedHandle == [obj |-> TRUE, open |-> FALSE]

\* what midi_in.get_ports() returns; <<>> also stands for the enumeration
\* raising, which leaves midi_ports_in = []
Enumerations == {<<"P1">>, <<>>}

\* the per-index fields of the settings of midi_io.py
MsP1 == [midi_port_name |-> "P1", event_name |-> "", browser_source_name |-> "B"]
MsP1Named == [midi_port_name |-> "P1", event_name |-> "midiDevice_1",
              browser_source_name |-> "B"]
MsGone == [midi_port_name |-> "gone", event_name |-> "", browser_source_name |-> "B"]

MidiSettingsOver(options) == UNION { [1 .. n -> options] : n \in 0 .. MaxDevices }
MidiSettings == MidiSettingsOver({MsP1, MsP1Named, MsGone})
MidiSendSettings == MidiSettingsOver({MsP1Named})

\* f"midiDevice_{i}"
SynthMidiName(i) ==
  CASE i = 0 -> "midiDevice_0"
    [] i = 1 -> "midiDevice_1"
    [] i = 2 -> "midiDevice_2"
    [] OTHER -> "midiDevice_n"

\* port_name in midi_ports_in
InPorts(name, ports) == \E k \in 1 .. Len(ports) : ports[k] = name

\* script_load, lines 51-58: the MidiDevice of settings index i
NewDevice(s, i) ==
  [ port_name |-> s.midi_port_name,
    browser_source_name |-> s.browser_source_name,
    event_name |-> IF s.event_name # "" THEN s.event_name ELSE SynthMidiName(i),
    midi_in |-> NoHandle,
    midi_out |-> NoHandle ]

\* script_load, lines 47-65: the loop from index i on; midi_devices[i] of
\* line 63 raises IndexError when the list is shorter than i + 1
RECURSIVE LoadFrom(_, _, _, _, _)
LoadFrom(settings, ports, i, devices, saved) ==
  IF i >= Len(settings) THEN [devices |-> devices, saved |-> saved, raised |-> FALSE]
  ELSE IF InPorts(settings[i + 1].midi_port_name, ports) THEN
    LET appended == Append(devices, NewDevice(settings[i + 1], i)) IN
    IF Len(appended) < i + 1
      THEN [devices |-> appended, saved |-> saved, raised |-> TRUE]
      ELSE LoadFrom(settings, ports, i + 1, appended, saved)
  ELSE LoadFrom(settings, ports, i + 1, devices, [saved EXCEPT ![i + 1] = "---"])

\* what opening the ports of one device does: both open, or open_port of the
\* input or of the output raises
OpenOutcomes == {"ok", "in", "out"}

\* start_midi_device(device)
start_midi_device(device, outcome) ==
  IF device.port_name = "" THEN device
  ELSE IF outcome = "in"
    THEN [device EXCEPT !.midi_in = UnopenedHandle]
  ELSE IF outcome = "out"
    THEN [device EXCEPT !.midi_in = OpenHandle, !.midi_out = UnopenedHandle]
  ELSE [device EXCEPT !.midi_in = OpenHandle, !.midi_out = OpenHandle]

\* start_midi()
start_midi(devices, outcomes) ==
  [k \in 1 .. Len(devices) |-> start_midi_device(devices[k], outcomes[k])]

\* stop_midi_device(device); `raising` holds "in"/"out" when that close_port raises
stop_midi_device(device, raising) ==
  [device EXCEPT
     !.midi_in = IF device.midi_in.obj /\ "in" \notin raising
                   THEN NoHandle ELSE device.midi_in,
     !.midi_out = IF device.midi_out.obj /\ "out" \notin raising
                    THEN NoHandle ELSE device.midi_out]

\* stop_midi()
stop_midi(devices, raisings) ==
  [k \in 1 .. Len(devices) |-> stop_midi_device(devices[k], raisings[k])]

NoRaisings == [k \in 1 .. MaxDevices |-> {}]

\* script_load of midi_io.py
MidiScriptLoad(settings, ports, outcomes) ==
  /\ mainPc = "idle"
  /\ midiScript = "new"
  /\ midi_ports_in' = ports
  /\ LET r == LoadFrom(settings, ports, 0, midi_devices,
                       [k \in 1 .. Len(settings) |-> settings[k].midi_port_name])
     IN /\ savedPorts' = r.saved
        /\ \/ /\ r.raised
              /\ midi_devices' = r.devices
              /\ midiScript' = "raised"
              /\ UNCHANGED midi_manager
           \/ /\ ~r.raised
              /\ midi_manager' = TRUE
              /\ midi_devices' = start_midi(stop_midi(r.devices, NoRaisings), outcomes)
              /\ midiScript' = "loaded"
  /\ UNCHANGED <<mCall, oReq>>
  /\ UNCHANGED <<oscVars, httpSrvVars, mainVars, listenerVars, handlerVars,
                 fileVars, wssVars, udpVars, fineVars>>

\* script_unload of midi_io.py
MidiScriptUnload(raisings) ==
  /\ mainPc = "idle"
  /\ midiScript \in {"loaded", "raised"}
  /\ midi_devices' = stop_midi(midi_devices, raisings)
  /\ midi_manager' = FALSE
  /\ midiScript' = "unloaded"
  /\ UNCHANGED <<midi_ports_in, savedPorts, mCall, oReq>>
  /\ UNCHANGED <<oscVars, httpSrvVars, mainVars, listenerVars, handlerVars,
                 fileVars, wssVars, udpVars, fineVars>>

(***************************************************************************)
(* send_midi_api(event_name, data).  A string is a sequence of characters, *)
(* a list a sequence of integers.                                          *)
(***************************************************************************)
\* the characters of the strings: two hex digits, the space, a character
\* that is no hex digit
HexAlphabet == {"9", "C", " ", "g"}
HexDigits == {"9", "C"}
HexVal(c) == IF c = "9" THEN 9 ELSE 12

\* the values of the lists
ListValues == {-1, 0, 255, 256}

HexStrings == UNION { [1 .. n -> HexAlphabet] : n \in 0 .. MaxHexLen }
ByteLists == UNION { [1 .. n -> ListValues] : n \in 0 .. MaxListLen }

StrData(s) == [kind |-> "str", val |-> s]
ListData(l) == [kind |-> "list", val |-> l]
\* data that is neither str nor list: None, a number, a dict
OtherData == [kind |-> "other", val |-> <<>>]

\* data.replace(" ", "")
RECURSIVE RemoveSpaces(_)
RemoveSpaces(s) ==
  IF s = <<>> THEN <<>>
  ELSE IF Head(s) = " " THEN RemoveSpaces(Tail(s))
  ELSE <<Head(s)>> \o RemoveSpaces(Tail(s))

\* bytearray.fromhex(s) raises ValueError: s has no whitespace left, so it
\* must be hex digits, two for each byte
FromHexRaises(s) ==
  Len(s) % 2 # 0 \/ \E k \in 1 .. Len(s) : s[k] \notin HexDigits

\* bytearray.fromhex(s)
FromHex(s) ==
  [k \in 1 .. Len(s) \div 2 |-> 16 * HexVal(s[2 * k - 1]) + HexVal(s[2 * k])]

\* bytearray(l) raises ValueError
ByteArrayRaises(l) == \E k \in 1 .. Len(l) : l[k] < 0 \/ l[k] > 255

\* what midi_out.send_message does
XmitOutcomes == {"ok", "raise"}

\* send_midi_api, lines 82-92: the body of the try block; exc: it raised
SendBody(device, data, xmit) ==
  LET message ==
        IF data.kind = "str" THEN FromHex(RemoveSpaces(data.val)) ELSE data.val
      decodeRaises ==
        IF data.kind = "str" THEN FromHexRaises(RemoveSpaces(data.val))
        ELSE ByteArrayRaises(data.val)
  IN IF data.kind \notin {"str", "list"}
       THEN [ret |-> FALSE, sent |-> <<>>, exc |-> FALSE]
     ELSE IF decodeRaises \/ xmit = "raise"
       THEN [ret |-> FALSE, sent |-> <<>>, exc |-> TRUE]
     ELSE [ret |-> TRUE,
           sent |-> IF device.midi_out.open THEN <<message>> ELSE <<>>,
           exc |-> FALSE]

\* send_midi_api with the exception of its try block let through
send_midi_api_no_except(devices, event_name, data, xmit) ==
  LET target == FirstNamed(devices, event_name) IN
  IF target # 0 /\ devices[target].midi_out.obj
    THEN LET r == SendBody(devices[target], data, xmit)
         IN [ret |-> r.ret, sent |-> r.sent, raised |-> r.exc]
    ELSE [ret |-> FALSE, sent |-> <<>>, raised |-> FALSE]

\* send_midi_api(event_name, data): the value returned, the messages put on
\* the output port, and whether the call raised
send_midi_api(devices, event_name, data, xmit) ==
  LET target == FirstNamed(devices, event_name) IN
  IF target # 0 /\ devices[target].midi_out.obj
    THEN LET r == SendBody(devices[target], data, xmit)
         IN [ret |-> r.ret, sent |-> r.sent, raised |-> FALSE]
    ELSE [ret |-> FALSE, sent |-> <<>>, raised |-> FALSE]

MidiEventNames == {"midiDevice_0", "midiDevice_1", "zz"}

NoCall == [event_name |-> "", data |-> OtherData, xmit |-> "ok",
           ret |-> FALSE, sent |-> <<>>, raised |-> FALSE]

\* a caller holding the module's function calls send_midi_api
SendMidiApi(event_name, data, xmit) ==
  /\ midiScript # "new"
  /\ mCall = NoCall
  /\ LET r == send_midi_api(midi_devices, event_name, data, xmit) IN
       mCall' = [event_name |-> event_name, data |-> data, xmit |-> xmit,
                 ret |-> r.ret, sent |-> r.sent, raised |-> r.raised]
  /\ UNCHANGED <<midi_devices, midi_ports_in, midi_manager, midiScript,
                 savedPorts, oReq>>
  /\ UNCHANGED <<oscVars, httpSrvVars, mainVars, listenerVars, handlerVars,
                 fileVars, wssVars, udpVars, fineVars>>

\* the caller has the returned value and goes on
SendMidiReturn ==
  /\ mCall # NoCall
  /\ mCall' = NoCall
  /\ UNCHANGED <<midi_devices, midi_ports_in, midi_manager, midiScript,
                 savedPorts, oReq>>
  /\ UNCHANGED <<oscVars, httpSrvVars, mainVars, listenerVars, handlerVars,
                 fileVars, wssVars, udpVars, fineVars>>

(***************************************************************************)
(* do_POST for a path that is neither /api/file/save nor /api/osc/send.    *)
(***************************************************************************)
OtherPaths == {"/api/midi/send", "/api/osc"}

NoOther == [path |-> "", event_name |-> "", status |-> 0]

\* do_POST, lines 181-185, 229 and 268-269: self.send_error(404)
HttpPostOther(path, event_name) ==
  /\ HTTP_SERVER_INSTANCE # None
  /\ oReq = NoOther
  /\ oReq' = [path |-> path, event_name |-> event_name, status |-> 404]
  /\ UNCHANGED <<midi_devices, midi_ports_in, midi_manager, midiScript,
                 savedPorts, mCall>>
  /\ UNCHANGED <<oscVars, httpSrvVars, mainVars, listenerVars, handlerVars,
                 fileVars, wssVars, udpVars, fineVars>>

\* the response is written and the connection thread ends
HttpPostOtherDone ==
  /\ oReq # NoOther
  /\ oReq' = NoOther
  /\ UNCHANGED <<midi_devices, midi_ports_in, midi_manager, midiScript,
                 savedPorts, mCall>>
  /\ UNCHANGED <<oscVars, httpSrvVars, mainVars, listenerVars, handlerVars,
                 fileVars, wssVars, udpVars, fineVars>>

InitMidi ==
  /\ midi_devices = <<>>
  /\ midi_ports_in = <<>>
  /\ midi_manager = FALSE
  /\ midiScript = "new"
  /\ savedPorts = <<>>
  /\ mCall = NoCall
  /\ oReq = NoOther

(***************************************************************************)
(* midi_input_callback(device, message): the callback rtmidi runs on the   *)
(* driver thread for every inbound message of an opened input port.        *)
(***************************************************************************)
\* raw messages have up to MaxMsgLen bytes
MaxMsgLen == 4
\* the byte values of the raw messages
MidiBytes == {7, 144}
MidiMessages == UNION { [1 .. n -> MidiBytes] : n \in 0 .. MaxMsgLen }

\* a configured device without a browser source
MsNoSource == [midi_port_name |-> "P1", event_name |-> "", browser_source_name |-> ""]
MidiInSettings == MidiSettingsOver({MsP1Named, MsNoSource})

\* the browser sources of the scene collection: the configured one exists or not
SourceSets == {Sources, {}}
\* what json.dumps and the proc handler call do inside the try block
DispatchOutcomes == {"ok", "raise"}

\* lines 232-234 with the third byte read only from messages longer than three
DecodeShort(midi_data) ==
  [ status |-> midi_data[1],
    note |-> IF Len(midi_data) > 1 THEN midi_data[2] ELSE 0,
    velocity |-> IF Len(midi_data) > 3 THEN midi_data[3] ELSE 0 ]

\* lines 232-234: midi_status, midi_note, midi_velocity
Decode(midi_data) ==
  [ status |-> midi_data[1],
    note |-> IF Len(midi_data) > 1 THEN midi_data[2] ELSE 0,
    velocity |-> IF Len(midi_data) > 2 THEN midi_data[3] ELSE 0 ]

\* midi_input_callback: midi_data[0] of line 232 is outside the try block and
\* raises IndexError for empty data; what the try block raises is caught
midi_input_callback(device, midi_data, sources, dispatch) ==
  IF Len(midi_data) = 0
    THEN [raised |-> TRUE, forwarded |-> <<>>]
  ELSE IF device.browser_source_name = "" \/ device.browser_source_name \notin sources
    THEN [raised |-> FALSE, forwarded |-> <<>>]
  ELSE IF dispatch = "raise"
    THEN [raised |-> FALSE, forwarded |-> <<>>]
  ELSE LET d == Decode(midi_data) IN
    [ raised |-> FALSE,
      forwarded |-> << [ eventName |-> device.event_name,
                         status |-> d.status,
                         note |-> d.note,
                         velocity |-> d.velocity,
                         data |-> midi_data ] >> ]

NoInput == [called |-> FALSE, device |-> 0, message |-> <<>>,
            raised |-> FALSE, forwarded |-> <<>>]

\* the driver thread calls the callback of device k; set_callback (line 211)
\* ran only when open_port of the input succeeded
MidiInput(k, message, sources, dispatch) ==
  /\ ~mIn.called
  /\ k \in 1 .. Len(midi_devices)
  /\ midi_devices[k].midi_in.open
  /\ LET r == midi_input_callback(midi_devices[k], message, sources, dispatch)
     IN mIn' = [called |-> TRUE, device |-> k, message |-> message,
                raised |-> r.raised, forwarded |-> r.forwarded]
  /\ UNCHANGED <<oscVars, httpSrvVars, mainVars, listenerVars, handlerVars,
                 fileVars, wssVars, udpVars, midiVars, stopVars, raceVars>>

\* the callback has returned or raised; the driver thread takes the next message
MidiInputReturn ==
  /\ mIn.called
  /\ mIn' = NoInput
  /\ UNCHANGED <<oscVars, httpSrvVars, mainVars, listenerVars, handlerVars,
                 fileVars, wssVars, udpVars, midiVars, stopVars, raceVars>>

InitInput == mIn = NoInput

(***************************************************************************)
(* send_midi_api and stop_midi statement by statement.  midi_io.py has no  *)
(* lock: the HTTP thread and the main thread interleave at every attribute *)
(* access.                                                                 *)
(***************************************************************************)
NoSend == [ret |-> FALSE, on |-> "none", raised |-> FALSE]

\* between `del device.midi_out` and `device.midi_out = None` the device has
\* no attribute midi_out
OutDeleted(k) == tearPc = "clear_out" /\ tearIdx = k

\* line 79: the index of the first device named event_name, 0 for None
FirstDevice(event_name) ==
  IF \E k \in 1 .. Len(midi_devices) : midi_devices[k].event_name = event_name
    THEN CHOOSE k \in 1 .. Len(midi_devices) :
           /\ midi_devices[k].event_name = event_name
           /\ \A j \in 1 .. k - 1 : midi_devices[j].event_name # event_name
    ELSE 0

\* send_midi_api, lines 79-80: the lookup and the test of the handle; reading
\* a deleted attribute raises AttributeError outside the try block
SendMidiLookup(event_name) ==
  /\ sendPc = "idle"
  /\ midi_manager
  /\ LET k == FirstDevice(event_name) IN
       IF k = 0 THEN
         /\ sendPc' = "done"
         /\ sendRes' = NoSend
         /\ UNCHANGED sendTarget
       ELSE IF OutDeleted(k) THEN
         /\ sendPc' = "done"
         /\ sendRes' = [ret |-> FALSE, on |-> "none", raised |-> TRUE]
         /\ UNCHANGED sendTarget
       ELSE IF ~midi_devices[k].midi_out.obj THEN
         /\ sendPc' = "done"
         /\ sendRes' = NoSend
         /\ UNCHANGED sendTarget
       ELSE
         /\ sendPc' = "xmit"
         /\ sendTarget' = k
         /\ UNCHANGED sendRes
  /\ UNCHANGED <<tearPc, tearIdx>>
  /\ UNCHANGED <<oscVars, httpSrvVars, mainVars, listenerVars, handlerVars,
                 fileVars, wssVars, udpVars, midiVars, stopVars, inputVars>>

\* send_midi_api, lines 81-95 for data that decodes: the handle is read again
\* at line 91; AttributeError of a deleted or None handle is caught; whether
\* send_message on a closed port raises is up to the driver
SendMidiTransmit(xmit) ==
  /\ sendPc = "xmit"
  /\ LET out == midi_devices[sendTarget].midi_out IN
       sendRes' =
         IF OutDeleted(sendTarget) \/ ~out.obj THEN NoSend
         ELSE IF xmit = "raise" THEN [ret |-> FALSE, on |-> "none", raised |-> FALSE]
         ELSE [ret |-> TRUE, on |-> IF out.open THEN "live" ELSE "closed",
               raised |-> FALSE]
  /\ sendPc' = "done"
  /\ UNCHANGED <<sendTarget, tearPc, tearIdx>>
  /\ UNCHANGED <<oscVars, httpSrvVars, mainVars, listenerVars, handlerVars,
                 fileVars, wssVars, udpVars, midiVars, stopVars, inputVars>>

\* the caller has its answer
SendMidiDone ==
  /\ sendPc = "done"
  /\ sendPc' = "idle"
  /\ sendTarget' = 0
  /\ sendRes' = NoSend
  /\ UNCHANGED <<tearPc, tearIdx>>
  /\ UNCHANGED <<oscVars, httpSrvVars, mainVars, listenerVars, handlerVars,
                 fileVars, wssVars, udpVars, midiVars, stopVars, inputVars>>

\* script_unload, line 184: stop_midi() starts its loop
StopMidiBegin ==
  /\ mainPc = "idle"
  /\ midiScript = "loaded"
  /\ tearPc = "idle"
  /\ tearPc' = "device"
  /\ tearIdx' = 1
  /\ UNCHANGED <<sendPc, sendTarget, sendRes>>
  /\ UNCHANGED <<oscVars, httpSrvVars, mainVars, listenerVars, handlerVars,
                 fileVars, wssVars, udpVars, midiVars, stopVars, inputVars>>

\* stop_midi_device, lines 276-286: the input is stopped, the output tested
StopMidiDevice ==
  /\ tearPc = "device"
  /\ tearIdx <= Len(midi_devices)
  /\ midi_devices' = [midi_devices EXCEPT ![tearIdx].midi_in = NoHandle]
  /\ IF midi_devices[tearIdx].midi_out.obj
       THEN tearPc' = "close_out" /\ UNCHANGED tearIdx
       ELSE tearPc' = "device" /\ tearIdx' = tearIdx + 1
  /\ UNCHANGED <<midi_ports_in, midi_manager, midiScript, savedPorts, mCall, oReq>>
  /\ UNCHANGED <<sendPc, sendTarget, sendRes>>
  /\ UNCHANGED <<oscVars, httpSrvVars, mainVars, listenerVars, handlerVars,
                 fileVars, wssVars, udpVars, stopVars, inputVars>>

\* line 288: device.midi_out.close_port()
StopMidiCloseOut ==
  /\ tearPc = "close_out"
  /\ midi_devices' = [midi_devices EXCEPT ![tearIdx].midi_out.open = FALSE]
  /\ tearPc' = "del_out"
  /\ UNCHANGED tearIdx
  /\ UNCHANGED <<midi_ports_in, midi_manager, midiScript, savedPorts, mCall, oReq>>
  /\ UNCHANGED <<sendPc, sendTarget, sendRes>>
  /\ UNCHANGED <<oscVars, httpSrvVars, mainVars, listenerVars, handlerVars,
                 fileVars, wssVars, udpVars, stopVars, inputVars>>

\* line 289: del device.midi_out
StopMidiDelOut ==
  /\ tearPc = "del_out"
  /\ tearPc' = "clear_out"
  /\ UNCHANGED tearIdx
  /\ UNCHANGED <<sendPc, sendTarget, sendRes>>
  /\ UNCHANGED <<oscVars, httpSrvVars, mainVars, listenerVars, handlerVars,
                 fileVars, wssVars, udpVars, midiVars, stopVars, inputVars>>

\* line 290: device.midi_out = None, and the loop goes to the next device
StopMidiClearOut ==
  /\ tearPc = "clear_out"
  /\ midi_devices' = [midi_devices EXCEPT ![tearIdx].midi_out = NoHandle]
  /\ tearPc' = "device"
  /\ tearIdx' = tearIdx + 1
  /\ UNCHANGED <<midi_ports_in, midi_manager, midiScript, savedPorts, mCall, oReq>>
  /\ UNCHANGED <<sendPc, sendTarget, sendRes>>
  /\ UNCHANGED <<oscVars, httpSrvVars, mainVars, listenerVars, handlerVars,
                 fileVars, wssVars, udpVars, stopVars, inputVars>>

\* script_unload, lines 185-186: the loop is over, the capability is deleted
StopMidiUnregister ==
  /\ tearPc = "device"
  /\ tearIdx > Len(midi_devices)
  /\ midi_manager' = FALSE
  /\ midiScript' = "unloaded"
  /\ tearPc' = "idle"
  /\ tearIdx' = 0
  /\ UNCHANGED <<midi_devices, midi_ports_in, savedPorts, mCall, oReq>>
  /\ UNCHANGED <<sendPc, sendTarget, sendRes>>
  /\ UNCHANGED <<oscVars, httpSrvVars, mainVars, listenerVars, handlerVars,
                 fileVars, wssVars, udpVars, stopVars, inputVars>>

InitRace ==
  /\ sendPc = "idle"
  /\ sendTarget = 0
  /\ sendRes = NoSend
  /\ tearPc = "idle"
  /\ tearIdx = 0

(***************************************************************************)
(* OSCManager.start_server and stop_server statement by statement, with    *)
(* the thread that runs serve_forever.  server.shutdown() returns when     *)
(* serve_forever has left its loop; join(timeout=1.0) returns when the     *)
(* thread has ended or the second is over.                                 *)
(***************************************************************************)
\* listenerLoop: "none" before any start, "serving" while serve_forever
\* loops, "exited" once it has returned, "dead" once the thread has ended,
\* "unstarted" for a Thread object whose start() raised

\* start_server, line 96, when script_load calls it
StartServerFromLoad ==
  /\ mainPc = "osc_start"
  /\ mainPc' = "stop_enter"
  /\ mainArg' = [mainArg EXCEPT !.then = "bind"]
  /\ UNCHANGED oscVars
  /\ UNCHANGED <<httpSrvVars, listenerVars, handlerVars, fileVars, wssVars,
                 udpVars, midiVars, fineVars>>

\* the "Restart Server" button: start_server(ip, port), line 96
StartServerFromButton(ip, port) ==
  /\ mainPc = "idle"
  /\ oscScript = "loaded"
  /\ mainPc' = "stop_enter"
  /\ mainArg' = [IdleArg EXCEPT !.ip = ip, !.port = port, !.then = "bind"]
  /\ UNCHANGED oscVars
  /\ UNCHANGED <<httpSrvVars, listenerVars, handlerVars, fileVars, wssVars,
                 udpVars, midiVars, fineVars>>

\* script_unload, line 170: MANAGER.stop_server()
StopServerFromUnload ==
  /\ mainPc = "idle"
  /\ oscScript = "loaded"
  /\ mainPc' = "stop_enter"
  /\ mainArg' = [IdleArg EXCEPT !.then = "unreg"]
  /\ oscScript' = "unloaded"
  /\ UNCHANGED <<clients, server, server_thread, is_running, lock, osc_manager,
                 oscBound, oscClosed>>
  /\ UNCHANGED <<httpSrvVars, listenerVars, handlerVars, fileVars, wssVars,
                 udpVars, midiVars, fineVars>>

\* stop_server, lines 110-111: self.server.shutdown() is called and waits
StopServerShutdown ==
  /\ mainPc = "stop_enter"
  /\ mainPc' = IF server # None THEN "stop_wait" ELSE "stop_join"
  /\ UNCHANGED <<oscVars, mainArg>>
  /\ UNCHANGED <<httpSrvVars, listenerVars, handlerVars, fileVars, wssVars,
                 udpVars, midiVars, fineVars>>

\* serve_forever sees the shutdown request and returns
ServeForeverReturns ==
  /\ mainPc = "stop_wait"
  /\ listenerLoop = "serving"
  /\ listenerLoop' = "exited"
  /\ UNCHANGED <<oscVars, mainVars>>
  /\ UNCHANGED <<httpSrvVars, listenerVars, handlerVars, fileVars, wssVars,
                 udpVars, midiVars, inputVars, raceVars>>

\* the thread whose target has returned ends
ListenerThreadEnds ==
  /\ listenerLoop = "exited"
  /\ listenerLoop' = "dead"
  /\ UNCHANGED <<oscVars, mainVars>>
  /\ UNCHANGED <<httpSrvVars, listenerVars, handlerVars, fileVars, wssVars,
                 udpVars, midiVars, inputVars, raceVars>>

\* stop_server, lines 111-113: shutdown() has returned; server_close(), None
StopServerClose ==
  /\ mainPc = "stop_wait"
  /\ listenerLoop \in {"exited", "dead"}
  /\ oscBound' = oscBound \ {server}
  /\ oscClosed' = server
  /\ server' = None
  /\ mainPc' = "stop_join"
  /\ UNCHANGED <<clients, server_thread, is_running, lock, osc_manager,
                 oscScript, mainArg>>
  /\ UNCHANGED <<httpSrvVars, listenerVars, handlerVars, fileVars, wssVars,
                 udpVars, midiVars, fineVars>>

\* stop_server, lines 114-118: join(timeout=1.0) returns whether or not the
\* thread has ended, and raises RuntimeError for a thread that never started
StopServerJoin ==
  /\ mainPc = "stop_join"
  /\ IF server_thread # None /\ listenerLoop = "unstarted"
       THEN /\ mainPc' = "stop_raised"
            /\ UNCHANGED <<server_thread, is_running, mainArg>>
       ELSE /\ server_thread' = None
            /\ is_running' = FALSE
            /\ mainPc' = CASE mainArg.then = "bind" -> "start_bind"
                           [] mainArg.then = "unreg" -> "osc_unreg"
                           [] OTHER -> "idle"
            /\ mainArg' = IF mainArg.then = "bind" THEN mainArg ELSE IdleArg
  /\ UNCHANGED <<clients, server, lock, osc_manager, oscBound, oscClosed, oscScript>>
  /\ UNCHANGED <<httpSrvVars, listenerVars, handlerVars, fileVars, wssVars,
                 udpVars, midiVars, fineVars>>

\* start_server, lines 97-106: the constructor raises, or the thread starts,
\* or Thread.start() raises after lines 100-101 have assigned both fields
StartServerBind ==
  /\ mainPc = "start_bind"
  /\ \/ /\ OscBindRaises(mainArg.ip, mainArg.port)
        /\ UNCHANGED <<server, oscBound, server_thread, is_running, listenerLoop>>
     \/ /\ ~OscBindRaises(mainArg.ip, mainArg.port)
        /\ server' = mainArg.port
        /\ oscBound' = oscBound \cup {mainArg.port}
        /\ server_thread' = 1
        /\ is_running' = TRUE
        /\ listenerLoop' = "serving"
     \/ /\ ~OscBindRaises(mainArg.ip, mainArg.port)
        /\ server' = mainArg.port
        /\ oscBound' = oscBound \cup {mainArg.port}
        /\ server_thread' = 1
        /\ listenerLoop' = "unstarted"
        /\ UNCHANGED is_running
  /\ mainPc' = "idle"
  /\ mainArg' = IdleArg
  /\ UNCHANGED <<clients, lock, osc_manager, oscClosed, oscScript>>
  /\ UNCHANGED <<httpSrvVars, listenerVars, handlerVars, fileVars, wssVars,
                 udpVars, midiVars, inputVars, raceVars>>

InitStop == listenerLoop = "none"

(***************************************************************************)
(* Specifications.  Every callback runs on the one OBS main thread; the    *)
(* datagram handler and the connection thread run beside it.               *)
(***************************************************************************)
Init ==
  /\ InitOsc /\ InitHttpSrv /\ InitThreads /\ InitFile /\ InitWss /\ InitUdp
  /\ InitMidi /\ InitInput /\ InitRace /\ InitStop

\* the listener ports of the specifications that do not vary the port
BridgePorts == {1}

\* osc_io.py on the main thread
OscMain(settings, ips, ports) ==
  \/ \E s \in settings, ip \in ips, port \in ports \cup {0} : ScriptLoad(s, ip, port)
  \/ \E s \in settings : ScriptUpdate(s)
  \/ UpdateBuild
  \/ UpdateStore
  \/ UpdateRegister
  \/ LoadStart
  \/ \E ip \in ips, port \in ports : RestartButton(ip, port)
  \/ OscBind
  \/ ScriptUnload
  \/ Unregister

\* the OSC service with its listener: inbound datagrams against table rebuilds
NextListen ==
  \/ OscMain(ListenSettings, {"ip"}, BridgePorts)
  \/ \E a \in Addresses, k \in ArgKinds : OscReceive(a, k)
  \/ OscAcquire
  \/ OscScan
  \/ OscExit

SpecListen == Init /\ [][NextListen]_vars

\* the handler thread is scheduled: a scan that can run and a with block that
\* can be left are not postponed forever
SpecListenFair == SpecListen /\ WF_vars(OscScan) /\ WF_vars(OscExit)

\* POST /api/osc/send against the callbacks of osc_io.py
NextSend ==
  \/ OscMain(SendSettings, {"ip"}, BridgePorts)
  \/ HttpScriptLoad(0)
  \/ HttpBind
  \/ HttpScriptUnload
  \/ \E r \in SendRequests : HttpRequest(r)
  \/ HttpResolve
  \/ HttpAcquire
  \/ HttpBridgeSend
  \/ HttpReturn
  \/ HttpClose

SpecSend == Init /\ [][NextSend]_vars

\* the settings of the specification that runs both readers of the table
TableSettings == SettingsOver({CsA})

\* the table under its three users: update_settings, the datagram handler
\* and the bridge's _bridge_send
NextTable ==
  \/ OscMain(TableSettings, {"ip"}, BridgePorts)
  \/ HttpScriptLoad(0)
  \/ HttpBind
  \/ \E a \in {AddrA, AddrC} : OscReceive(a, "floats")
  \/ OscAcquire
  \/ OscScan
  \/ OscExit
  \/ \E r \in {[event_name |-> "osc_event_0", address |-> AddrA],
               [event_name |-> "osc_event_1", address |-> AddrA]} : HttpRequest(r)
  \/ HttpResolve
  \/ HttpAcquire
  \/ HttpBridgeSend
  \/ HttpReturn
  \/ HttpClose

SpecTable == Init /\ [][NextTable]_vars

\* the lifecycle of both listeners
NextLife ==
  \/ OscMain(LifeSettings, ServerIps, Ports)
  \/ \E p \in HttpPorts \cup {0} : HttpScriptLoad(p)
  \/ \E p \in HttpPorts : OnPortChanged(p)
  \/ HttpBind
  \/ HttpScriptUnload

SpecLife == Init /\ [][NextLife]_vars

\* the file routes
NextFile ==
  \/ HttpScriptLoad(0)
  \/ HttpBind
  \/ \E d \in Folders : FileList(d)
  \/ \E d \in Folders, n \in Filenames : FileGet(d, n)
  \/ \E d \in Folders, n \in Filenames, v \in DataValues : FileSave(d, n, v)

SpecFile == Init /\ [][NextFile]_vars

\* config loads against GET /api/obswss
NextWss ==
  \/ HttpScriptLoad(0)
  \/ HttpBind
  \/ HttpScriptUnload
  \/ \E f \in ConfigFiles : WssLoad(f)
  \/ WssWritePW
  \/ WssWritePort
  \/ WssWriteIP
  \/ WssReturn
  \/ ObsWssGet
  \/ ObsWssDone

SpecWss == Init /\ [][NextWss]_vars

\* the small data handed to send_midi_api beside the lifecycle
LifeStrings == {<<"9", "C">>, <<"g">>}

\* the lifecycle of midi_io.py beside the HTTP service
NextMidi ==
  \/ HttpScriptLoad(0)
  \/ HttpBind
  \/ \E s \in MidiSettings, ports \in Enumerations,
        o \in [1 .. MaxDevices -> OpenOutcomes] : MidiScriptLoad(s, ports, o)
  \/ \E c \in [1 .. MaxDevices -> SUBSET {"in", "out"}] : MidiScriptUnload(c)
  \/ \E e \in MidiEventNames, s \in LifeStrings : SendMidiApi(e, StrData(s), "ok")
  \/ SendMidiReturn
  \/ \E path \in OtherPaths, e \in MidiEventNames : HttpPostOther(path, e)
  \/ HttpPostOtherDone

SpecMidi == Init /\ [][NextMidi]_vars

\* send_midi_api over every data value, against a loaded device table
NextMidiSend ==
  \/ \E s \in MidiSendSettings, ports \in Enumerations,
        o \in [1 .. MaxDevices -> OpenOutcomes] : MidiScriptLoad(s, ports, o)
  \/ /\ mCall = NoCall
     /\ \E e \in MidiEventNames, s \in HexStrings, x \in XmitOutcomes :
          SendMidiApi(e, StrData(s), x)
  \/ /\ mCall = NoCall
     /\ \E e \in MidiEventNames, l \in ByteLists, x \in XmitOutcomes :
          SendMidiApi(e, ListData(l), x)
  \/ \E e \in MidiEventNames, x \in XmitOutcomes : SendMidiApi(e, OtherData, x)
  \/ SendMidiReturn

SpecMidiSend == Init /\ [][NextMidiSend]_vars

\* the MIDI driver thread beside the main thread
NextMidiIn ==
  \/ \E settings \in MidiInSettings, ports \in Enumerations,
        outcomes \in [1 .. MaxDevices -> OpenOutcomes] :
        MidiScriptLoad(settings, ports, outcomes)
  \/ \E raising \in SUBSET {"in", "out"} :
        MidiScriptUnload([k \in 1 .. MaxDevices |-> raising])
  \/ /\ ~mIn.called
     /\ \E k \in 1 .. Len(midi_devices), message \in MidiMessages,
           sources \in SourceSets, dispatch \in DispatchOutcomes :
           MidiInput(k, message, sources, dispatch)
  \/ MidiInputReturn

SpecMidiIn == Init /\ [][NextMidiIn]_vars

\* a caller of the MIDI bridge beside the teardown on the main thread; every
\* port of the loaded devices has opened
NextMidiRace ==
  \/ \E settings \in MidiSettingsOver({MsP1, MsP1Named}), ports \in Enumerations :
        MidiScriptLoad(settings, ports, [k \in 1 .. MaxDevices |-> "ok"])
  \/ \E event_name \in MidiEventNames : SendMidiLookup(event_name)
  \/ \E xmit \in XmitOutcomes : SendMidiTransmit(xmit)
  \/ SendMidiDone
  \/ StopMidiBegin
  \/ StopMidiDevice
  \/ StopMidiCloseOut
  \/ StopMidiDelOut
  \/ StopMidiClearOut
  \/ StopMidiUnregister

SpecMidiRace == Init /\ [][NextMidiRace]_vars

\* the OSC listener started and stopped statement by statement
NextStop ==
  \/ \E s \in SettingsOver({CsA}), ip \in ServerIps, port \in Ports \cup {0} :
        ScriptLoad(s, ip, port)
  \/ UpdateBuild
  \/ UpdateStore
  \/ UpdateRegister
  \/ StartServerFromLoad
  \/ \E ip \in ServerIps \ {""}, port \in Ports : StartServerFromButton(ip, port)
  \/ StopServerFromUnload
  \/ StopServerShutdown
  \/ ServeForeverReturns
  \/ ListenerThreadEnds
  \/ StopServerClose
  \/ StopServerJoin
  \/ StartServerBind
  \/ Unregister

SpecStop == Init /\ [][NextStop]_vars


(***************************************************************************)
(* Properties of the OSC listener (SpecListen).                            *)
(***************************************************************************)
\* the table positions whose filter is empty or a prefix of the address
Matching(cl, address) ==
  { i \in 1 .. Len(cl) :
      cl[i].osc_address = <<>> \/ StartsWith(address, cl[i].osc_address) }

Lowest(S) == CHOOSE i \in S : \A j \in S : i <= j

\* C1: when the scan of _on_osc_received is over (the lock is still held, so
\* the table is the one scanned), at most one client was dispatched to, and
\* if some client matches the address it is the matching client with the
\* lowest table index.
C1_FirstMatchOnly ==
  lPc = "exit" =>
    /\ Len(dispatched) <= 1
    /\ Matching(clients, lAddr) # {}
         => dispatched = <<Lowest(Matching(clients, lAddr))>>

\* C1 witness: two or more clients match the datagram and exactly one
\* dispatch was made
C1_Witness ==
  /\ lPc = "exit"
  /\ Cardinality(Matching(clients, lAddr)) >= 2
  /\ Len(dispatched) = 1

\* C2: a datagram that no client's filter matches (the empty table included)
\* is handled without a dispatch and without an error, and a handler that is
\* not inside its with block does not hold the table lock.
C2_NoMatchNoDispatch ==
  /\ (lPc = "exit" /\ Matching(clients, lAddr) = {})
       => (dispatched = <<>> /\ delivered = <<>> /\ ~lErr)
  /\ lPc \in {"idle", "wait"} => lock # "listener"

\* C2 witness: a table with clients, none of which matches, has been scanned
C2_Witness ==
  /\ lPc = "exit"
  /\ clients # <<>>
  /\ Matching(clients, lAddr) = {}
  /\ dispatched = <<>>

(***************************************************************************)
(* Properties of POST /api/osc/send (SpecSend).                            *)
(***************************************************************************)
\* the registry holds a client of the requested event_name
KnownEvent(name) ==
  \E i \in 1 .. Len(osc_manager.clients) : osc_manager.clients[i].event_name = name

\* C3: for a request with event_name and address, the step that reads the
\* registry answers 503 when the capability is not registered, 404 when it is
\* registered without a client of that event_name, and otherwise goes on to
\* the send, which can only end in 200; no step of the handler changes the
\* HTTP listener.
C3_SendStatus ==
  /\ [][(hPc = "recv" /\ hPc' # "recv"
           /\ hEvent.event_name # "" /\ hEvent.address # <<>>)
        => /\ ~osc_manager.registered => (hStatus' = 503 /\ hPc' = "done")
           /\ (osc_manager.registered /\ ~KnownEvent(hEvent.event_name))
                => (hStatus' = 404 /\ hPc' = "done")
           /\ (osc_manager.registered /\ KnownEvent(hEvent.event_name))
                => (hStatus' = 0 /\ hPc' = "call")]_vars
  /\ [][(hPc \in {"call", "locked", "unlock"} /\ hPc' = "done")
        => hStatus' = 200]_vars
  /\ [][hPc' # hPc
        => UNCHANGED <<HTTP_SERVER_INSTANCE, SERVER_THREAD, httpBound>>]_vars

\* C3 witness: a request was answered 200 after a UDP transmit
C3_Witness ==
  /\ hPc = "done"
  /\ hStatus = 200
  /\ hXmit = "sent"

\* C4: once script_unload has deleted the bridge attribute, a send request
\* that reaches the registry lookup is answered 503 and no UDP transmit is
\* made, also for a request whose handler had started before.
C4_UnregisteredMeans503 ==
  [][(~osc_manager.registered /\ oscScript = "unloaded")
      => /\ (hPc # "done" /\ hPc' = "done" /\ hStatus' # 400) => hStatus' = 503
         /\ hXmit' = "sent" => hXmit = "sent"]_vars


(***************************************************************************)
(* Properties of the file routes (SpecFile).                               *)
(***************************************************************************)
\* the components of a path after normalization
RECURSIVE NonEmpty(_)
NonEmpty(comps) ==
  IF comps = <<>> THEN <<>>
  ELSE IF Head(comps) = <<>> THEN NonEmpty(Tail(comps))
  ELSE <<Head(comps)>> \o NonEmpty(Tail(comps))

Components(p) == NonEmpty(split(normpath(p)))

\* p names a file or directory strictly below SCRIPT_DIR
StrictlyInside(p) ==
  LET c == Components(p)
      r == Components(SCRIPT_DIR)
  IN Len(c) > Len(r) /\ SubSeq(c, 1, Len(r)) = r

\* the path a request makes the route access
AccessedPath(req) ==
  CASE req.route = "list" -> join(SCRIPT_DIR, req.folder)
    [] req.route = "get" -> join(join(SCRIPT_DIR, req.folder), req.filename)
    [] req.route = "save" ->
         join(join(SCRIPT_DIR, req.folder), SaveName(req.filename))
    [] OTHER -> SCRIPT_DIR

\* C5: a list, get or save request whose accessed path, normalized, is not
\* strictly below the root is answered 403 and reads, writes and creates
\* nothing.
C5_EscapeRejected ==
  (fReq.route \in {"list", "get", "save"} /\ fReq.status # 400
     /\ ~StrictlyInside(AccessedPath(fReq)))
    => /\ fReq.status = 403
       /\ fReq.reads = {}
       /\ fReq.writes = {}
       /\ fReq.mkdirs = {}

\* C6: a get that follows a save answered 200, with the same folder and the
\* same filename, inside the root, is answered 200 with the text the save
\* wrote.
C6_SaveGetRoundTrip ==
  (fReq.route = "get" /\ lastSave # NoSave
     /\ fReq.folder = lastSave.folder /\ fReq.filename = lastSave.filename
     /\ StrictlyInside(AccessedPath(fReq)))
    => (fReq.status = 200 /\ fReq.body = Dump(lastSave.data))

(***************************************************************************)
(* Properties of the listener lifecycle (SpecLife).                        *)
(***************************************************************************)
\* C7: each service holds at most one bound listener socket, the one its
\* handle names; when start_server is about to bind, the socket of the
\* previous listener is closed, so the port it had is free.
C7_OneListener ==
  /\ Cardinality(oscBound) <= 1
  /\ Cardinality(httpBound) <= 1
  /\ oscBound = (IF server = None THEN {} ELSE {server})
  /\ httpBound = (IF HTTP_SERVER_INSTANCE = None THEN {} ELSE {HTTP_SERVER_INSTANCE})
  /\ mainPc = "osc_bind" => oscBound = {}
  /\ mainPc = "http_bind" => httpBound = {}

\* C7 witness: both services were restarted on another port
C7_Witness ==
  /\ server # None
  /\ oscClosed # None
  /\ oscClosed # server
  /\ HTTP_SERVER_INSTANCE # None
  /\ httpClosed # None
  /\ httpClosed # HTTP_SERVER_INSTANCE

\* C8 as stated: between callbacks, the capability is registered exactly while
\* the OSC service is Running.
C8_RegisteredIffRunning ==
  mainPc = "idle" => (osc_manager.registered <=> is_running)

\* C8 amended: between callbacks the capability is registered exactly from
\* script_load to script_unload, a Running service is always registered, and
\* no step that starts or stops the listener changes the registry.
C8_RegisteredWhileLoaded ==
  /\ [](mainPc = "idle" => (osc_manager.registered <=> oscScript = "loaded"))
  /\ [](is_running => osc_manager.registered)
  /\ [][(is_running' # is_running \/ server' # server)
          => osc_manager' = osc_manager]_vars

\* C8 witness: the stop inside a restart has closed the listener, the bind
\* failed, and the capability is still registered
C8_Witness ==
  /\ mainPc = "idle"
  /\ oscScript = "loaded"
  /\ oscClosed # None
  /\ server = None
  /\ ~is_running
  /\ osc_manager.registered

(***************************************************************************)
(* Properties of the WSS config loader (SpecWss).                          *)
(***************************************************************************)
\* C9: when update_wss_details returns a rejection, WSS_DETAILS is what it
\* was when the call started.
C9_RejectKeepsTriple ==
  (wPc = "ret" /\ wResult = "rejected") => WSS_DETAILS = wBefore

\* C10: the port and the password of every /api/obswss response come from
\* one successful load, or both are the initial defaults.
C10_ConsistentTriple ==
  gResp # NoResponse =>
    [PORT |-> gResp.PORT, PW |-> gResp.PW]
      \in goodLoads \cup {[PORT |-> WssDefaults.PORT, PW |-> WssDefaults.PW]}

(***************************************************************************)
(* Properties of send_midi_api (SpecMidiSend).                             *)
(***************************************************************************)
\* some device of the table has the event_name and an output port that is open
HasLiveOutput(name) ==
  \E k \in 1 .. Len(midi_devices) :
    midi_devices[k].event_name = name /\ midi_devices[k].midi_out.open

\* pairs of hex digits, with any number of spaces before, between and after
\* the pairs
RECURSIVE HexPairs(_)
HexPairs(s) ==
  \/ s = <<>>
  \/ Head(s) = " " /\ HexPairs(Tail(s))
  \/ /\ Len(s) >= 2
     /\ s[1] \in HexDigits
     /\ s[2] \in HexDigits
     /\ HexPairs(SubSeq(s, 3, Len(s)))

\* the characters of a string that are no spaces
NonSpaces(s) == SelectSeq(s, LAMBDA c : c # " ")

\* the bytes a string of hex digits, or a list of byte values, stands for
BytesOf(data) ==
  IF data.kind = "str"
    THEN LET d == NonSpaces(data.val) IN
         [k \in 1 .. Len(d) \div 2 |->
            16 * (IF d[2 * k - 1] = "9" THEN 9 ELSE 12)
              + (IF d[2 * k] = "9" THEN 9 ELSE 12)]
    ELSE data.val

C12_MidiRoute ==
  [][(oReq = NoOther /\ oReq' # NoOther /\ oReq'.path = "/api/midi/send")
      => oReq'.status =
           (IF ~midi_manager THEN 503
            ELSE IF FirstNamed(midi_devices, oReq'.event_name) = 0 THEN 404
            ELSE 200)]_vars

(***************************************************************************)
(* Properties of outbound OSC sends (SpecSend).                            *)
(***************************************************************************)
\* C13: a request answered 200 success=true is one for which a UDP transmit
\* to a client of the requested event_name was performed; a target without
\* a socket, a transmit that raised and a client that is gone from the
\* rebuilt table are not answered as successes.
C13_SuccessMeansSent ==
  (hPc = "done" /\ hStatus = 200) => hXmit = "sent"

C15_OneDevicePerIndex ==
  midiScript \in {"loaded", "raised"} =>
    /\ Len(midi_devices) = Len(savedPorts)
    /\ \A k \in 1 .. Len(savedPorts) :
         IF savedPorts[k] = "---"
           THEN /\ midi_devices[k].port_name \in {"", "---"}
                /\ midi_devices[k].midi_in = NoHandle
                /\ midi_devices[k].midi_out = NoHandle
           ELSE /\ midi_devices[k].port_name = savedPorts[k]
                /\ midi_devices[k].midi_in = OpenHandle
                /\ midi_devices[k].midi_out = OpenHandle

(***************************************************************************)
(* Properties of the OSC client table under its lock (SpecTable).          *)
(***************************************************************************)
\* C16: the scan of _on_osc_received, the lookup of _bridge_send and the
\* rebuild of update_settings each run with the lock held by their thread,
\* so no two of them overlap, and the table changes only in a step of the
\* main thread while neither reader is inside its with block.
C16_TableExclusion ==
  /\ [](lPc \in {"scan", "exit"} => lock = "listener")
  /\ [](hPc \in {"locked", "unlock"} => lock = "http")
  /\ [](mainPc \in {"upd_build", "upd_store", "upd_register"} => lock = "main")
  /\ [][clients' # clients
          => /\ lock = "main"
             /\ lPc \notin {"scan", "exit"}
             /\ hPc \notin {"locked", "unlock"}]_vars

\* C16 witness: a new table is about to be stored while a datagram handler
\* and a send both wait for the lock
C16_Witness ==
  /\ mainPc = "upd_store"
  /\ clients # BuildClients(mainArg.settings)
  /\ lPc = "wait"
  /\ hPc = "call"

\* C17: the step that transmits on a client's UDP socket and the step that
\* dispatches to a browser source are taken by a thread that does not hold
\* the table lock.
C17_NoIoUnderLock ==
  /\ [][(hXmit' # hXmit /\ hXmit' \in {"sent", "raised"}) => lock # "http"]_vars
  /\ [][(dispatched' # dispatched /\ dispatched' # <<>>) => lock # "listener"]_vars

(***************************************************************************)
(* Properties of the clients' sockets and names.                           *)
(***************************************************************************)
\* the clients of a table that have an ip and a port
Configured(cl) ==
  Cardinality({ i \in 1 .. Len(cl) : cl[i].ip # "" /\ cl[i].port # 0 })

\* C18 (SpecSend): when the sockets of a new table have been opened those of
\* the previous table are closed already, and between callbacks the number
\* of open sockets is the number of clients of the table with ip and port.
C18_OldClosedBeforeNew ==
  /\ (mainPc = "upd_store" /\ Live(BuildClients(mainArg.settings)) > 0)
       => udpOpen = Live(BuildClients(mainArg.settings))
  /\ mainPc = "idle" => udpOpen = Configured(clients)

\* C19 (SpecListen): the event_name values of the clients of the table are
\* pairwise distinct.
C19_DistinctEventNames ==
  \A i, j \in 1 .. Len(clients) :
    i # j => clients[i].event_name # clients[j].event_name

\* C20 (SpecMidi): after the stop_midi of script_unload every device has
\* neither an input handle nor an output handle.
C20_HandlesCleared ==
  midiScript = "unloaded" =>
    \A k \in 1 .. Len(midi_devices) :
      midi_devices[k].midi_in = NoHandle /\ midi_devices[k].midi_out = NoHandle


\* C21: midi_input_callback never raises to the driver thread, whatever the
\* raw message (the empty one included), the target lookup and the dispatch
\* do; a failed dispatch forwards nothing and is not repeated.
C21_CallbackNeverRaises ==
  mIn.called => (~mIn.raised /\ Len(mIn.forwarded) <= 1)

\* the raw message followed by the zeros that stand for missing bytes
Padded(message) == message \o <<0, 0, 0>>

\* C22: every event midi_input_callback forwards has status = byte 0,
\* note = byte 1 and velocity = byte 2 of the raw message, a byte the message
\* lacks taken as 0, data = the whole raw message, and the event_name of the
\* device as its name.
C22_ForwardedEvent ==
  \A i \in 1 .. Len(mIn.forwarded) :
    LET e == mIn.forwarded[i]
        p == Padded(mIn.message)
    IN /\ e.status = p[1]
       /\ e.note = p[2]
       /\ e.velocity = p[3]
       /\ e.data = mIn.message
       /\ e.eventName = midi_devices[mIn.device].event_name

\* a one-byte message was forwarded
C22_Witness ==
  /\ mIn.called
  /\ Len(mIn.message) = 1
  /\ Len(mIn.forwarded) = 1
  /\ mIn.forwarded[1].note = 0


\* a step of update_settings: its entry, or one of its statements
UpdateStep ==
  \/ mainPc = "idle" /\ mainPc' = "upd_build"
  \/ mainPc \in {"upd_build", "upd_store", "upd_register"} /\ mainPc' # mainPc

\* C23: update_settings changes only the client table and the registry entry:
\* no step of it changes the listener socket, the listener thread or the
\* Running/Stopped state, whether the service is Running or Stopped.
C23_UpdateFrame ==
  [][UpdateStep => UNCHANGED <<server, server_thread, is_running, oscBound,
                               oscClosed, httpSrvVars>>]_vars

\* update_settings of a Running service is about to return with a new table
C23_Witness ==
  /\ mainPc = "upd_register"
  /\ mainArg.then = "none"
  /\ is_running
  /\ server # None
  /\ server_thread # None
  /\ Len(clients) > 0


\* C24: stop_server terminates from every reachable state (stopped, running,
\* after a failed start, with a listener thread slow to exit): it never waits
\* in server.shutdown() for a serve_forever that was never started, never
\* fails in join, and once it has returned the service holds no server handle
\* and no thread reference.
C24_StopTerminates ==
  /\ mainPc = "stop_wait" => listenerLoop \in {"serving", "exited", "dead"}
  /\ mainPc # "stop_raised"
  /\ mainPc \in {"start_bind", "osc_unreg"} => (server = None /\ server_thread = None)


\* C25: a dispatch that raises inside the table scan of one datagram leaves
\* the table lock released and the listener as it was: the handler's exit
\* frees the lock and changes neither the server, its thread nor the Running
\* state, an idle handler never holds the lock, and a lock held by the
\* handler is always released, so later datagrams, updates and sends get it.
C25_FailureReleasesLock ==
  /\ [][(lPc = "exit" /\ lErr /\ lPc' # lPc) =>
          /\ lock' = "free"
          /\ lPc' = "idle"
          /\ UNCHANGED <<server, server_thread, is_running, oscBound, clients>>]_vars
  /\ [](lPc \in {"idle", "wait"} => lock # "listener")
  /\ ((lock = "listener") ~> (lock # "listener"))

\* the dispatch of a matched datagram has raised under the lock of a Running
\* listener
C25_Witness ==
  /\ lPc = "exit"
  /\ lErr
  /\ lock = "listener"
  /\ Len(dispatched) = 1
  /\ is_running
  /\ server # None


\* C26: a send_midi_api that runs beside stop_midi never transmits on an
\* output handle that was closed or cleared: in every interleaving the call
\* returns True only after send_message on a port that is still open, and
\* otherwise returns False without raising.
C26_SendOnLiveOrFalse ==
  sendPc = "done" =>
    /\ ~sendRes.raised
    /\ sendRes.ret => sendRes.on = "live"


\* the event_names of a table or of a snapshot, in order
EventNames(seq) == [i \in 1 .. Len(seq) |-> seq[i].event_name]

\* C27: whenever the capability is registered and the table lock is free or
\* held by a reader (the datagram handler, the bridge's send), the client
\* snapshot of the registry lists exactly the event_names of the manager's
\* client table, in the same order.
C27_SnapshotMatchesTable ==
  (osc_manager.registered /\ lock # "main") =>
     EventNames(osc_manager.clients) = EventNames(clients)

\* the bridge's send holds the lock over a registered table of two clients
C27_Witness ==
  /\ lock = "http"
  /\ hPc = "locked"
  /\ osc_manager.registered
  /\ Len(clients) = 2
  /\ Len(osc_manager.clients) = 2


\* C28: MIDI script_load runs to completion for every saved configuration and
\* every enumeration of ports: it never aborts, it registers the capability,
\* and every configured device whose port is enumerated is in the table with
\* its handles created, also when a device of a lower index has no port.
C28_LoadCompletes ==
  midiScript \in {"loaded", "raised"} =>
    /\ midiScript = "loaded"
    /\ midi_manager
    /\ \A k \in 1 .. Len(savedPorts) :
         InPorts(savedPorts[k], midi_ports_in) =>
           \E j \in 1 .. Len(midi_devices) :
             /\ midi_devices[j].port_name = savedPorts[k]
             /\ midi_devices[j].midi_in.obj

====
